---- MODULE Spec2Model ----
(***************************************************************************)
(* A model of the sql_ish in-memory query engine (modules/ package):       *)
(* scalars and literal parsing, the WHERE condition tree and its           *)
(* evaluator, the Table operations, the join functions and the Database    *)
(* registry with its query() entry point.                                  *)
(*                                                                         *)
(* Python strings are sequences of one-character strings, so that the      *)
(* code's string operations (concatenation, suffix tests, comparison by    *)
(* code point, int()/float() conversion) are computed, not assumed.        *)
(***************************************************************************)
EXTENDS Integers, Sequences, FiniteSets, TLC

VARIABLES
  tables,    \* Database.tables: name -> Table
  last,      \* the call just made, or Idle
  outcome,   \* how that call ended
  result,    \* the table it returned, if any
  tree,      \* the condition tree a direct call of evaluate was given
  listed,    \* the names list_tables returned, if it was the call
  pre,       \* history: Database.tables when that call was made
  issued     \* history: per registered table, the column count it was
             \* created with and the rows of the INSERT statements of that
             \* many values issued against it since

vars == <<tables, last, outcome, result, tree, listed, pre, issued>>

(***************************************************************************)
(* Bounds                                                                  *)
(***************************************************************************)
\* largest number of rows a table may hold before INSERT is no longer offered
MaxRows == 2

\* largest number of items in the value lists built for the INSERT parser
MaxItems == 2

\* largest number of columns of the right tables built for the joins' column
\* resolution
MaxColumns == 2

\* largest number of comparisons in the WHERE texts built for the WHERE parser
MaxTerms == 3

(***************************************************************************)
(* Strings                                                                 *)
(***************************************************************************)
\* the printable ASCII characters, in code point order from 32 (space); the
\* backtick, which a TLA+ string cannot hold, is spelled out
Ascii ==
  <<" ", "!", "\"", "#", "$", "%", "&", "'", "(", ")", "*", "+", ",", "-",
    ".", "/", "0", "1", "2", "3", "4", "5", "6", "7", "8", "9", ":", ";",
    "<", "=", ">", "?", "@", "A", "B", "C", "D", "E", "F", "G", "H", "I",
    "J", "K", "L", "M", "N", "O", "P", "Q", "R", "S", "T", "U", "V", "W",
    "X", "Y", "Z", "[", "\\", "]", "^", "_", "backtick", "a", "b", "c", "d", "e",
    "f", "g", "h", "i", "j", "k", "l", "m", "n", "o", "p", "q", "r", "s",
    "t", "u", "v", "w", "x", "y", "z", "{", "|", "}", "~">>

\* ord(c), as a table
Code == [c \in {Ascii[i] : i \in 1..Len(Ascii)} |->
           31 + CHOOSE i \in 1..Len(Ascii) : Ascii[i] = c]

\* ord(c)
CharCode(c) == Code[c]

\* chr(n)
Chr(n) == Ascii[n - 31]

\* str.lower() on one character
LowerChar(c) == IF Code[c] \in 65..90 THEN Chr(Code[c] + 32) ELSE c

\* str.upper() on one character
UpperChar(c) == IF Code[c] \in 97..122 THEN Chr(Code[c] - 32) ELSE c

\* str.lower()
Lower(s) == [i \in 1..Len(s) |-> LowerChar(s[i])]

\* str.upper()
Upper(s) == [i \in 1..Len(s) |-> UpperChar(s[i])]

\* str.startswith(prefix)
StartsWith(s, prefix) ==
  /\ Len(prefix) <= Len(s)
  /\ SubSeq(s, 1, Len(prefix)) = prefix

\* the positions at which sub occurs in s
Occurrences(s, sub) ==
  {i \in 1..(Len(s) - Len(sub) + 1) : SubSeq(s, i, i + Len(sub) - 1) = sub}

\* sub in s
Contains(s, sub) == Occurrences(s, sub) # {}

\* s.find(sub), 1-based; 0 when sub does not occur
Find(s, sub) ==
  IF Contains(s, sub)
  THEN CHOOSE i \in Occurrences(s, sub) : \A j \in Occurrences(s, sub) : i <= j
  ELSE 0

\* s.split(sub, 1) when sub occurs: the text before and after its first
\* occurrence
SplitFirst(s, sub) ==
  LET i == Find(s, sub)
  IN  <<SubSeq(s, 1, i - 1), SubSeq(s, i + Len(sub), Len(s))>>

RECURSIVE LStrip(_)
LStrip(s) == IF Len(s) > 0 /\ s[1] = " " THEN LStrip(Tail(s)) ELSE s

RECURSIVE RStrip(_)
RStrip(s) ==
  IF Len(s) > 0 /\ s[Len(s)] = " " THEN RStrip(SubSeq(s, 1, Len(s) - 1)) ELSE s

\* str.strip() (the model's only whitespace is the space)
Strip(s) == RStrip(LStrip(s))

\* str.endswith(suffix)
EndsWith(s, suffix) ==
  /\ Len(suffix) <= Len(s)
  /\ SubSeq(s, Len(s) - Len(suffix) + 1, Len(s)) = suffix

IsDigit(c) == c \in {"0", "1", "2", "3", "4", "5", "6", "7", "8", "9"}

DigitVal(c) == CharCode(c) - 48

\* whether int(s) / float(s) succeeds, for the texts of the model: they hold
\* no sign, underscore, '.', exponent, "inf" or "nan", so a text converts
\* exactly when it is a non-empty run of decimal digits
IsNumeric(s) == Len(s) > 0 /\ \A i \in 1..Len(s) : IsDigit(s[i])

RECURSIVE IntOf(_)
\* int(s) for a text of decimal digits
IntOf(s) ==
  IF Len(s) = 0 THEN 0
  ELSE 10 * IntOf(SubSeq(s, 1, Len(s) - 1)) + DigitVal(s[Len(s)])

RECURSIVE StrLess(_, _)
\* Python's a < b on two str values: lexicographic by code point
StrLess(a, b) ==
  IF Len(b) = 0 THEN FALSE
  ELSE IF Len(a) = 0 THEN TRUE
  ELSE IF CharCode(a[1]) # CharCode(b[1]) THEN CharCode(a[1]) < CharCode(b[1])
  ELSE StrLess(Tail(a), Tail(b))

(***************************************************************************)
(* Scalars: None, int, str                                                 *)
(***************************************************************************)
Null == [t |-> "null", n |-> 0, s |-> <<>>]

Num(k) == [t |-> "num", n |-> k, s |-> <<>>]

Text(s) == [t |-> "text", n |-> 0, s |-> s]

\* whether val starts and ends with the same kind of quote
IsQuoted(val) ==
  \/ StartsWith(val, <<"\"">>) /\ EndsWith(val, <<"\"">>)
  \/ StartsWith(val, <<"'">>) /\ EndsWith(val, <<"'">>)

\* the literal conversion shared by INSERT values, SET values and WHERE
\* literals: val[1:-1] for a quoted text, None for NULL, int(val) when it
\* converts, else the text itself
ParseLiteral(val) ==
  IF IsQuoted(val) THEN Text(SubSeq(val, 2, Len(val) - 1))
  ELSE IF Lower(val) = <<"n", "u", "l", "l">> THEN Null
  ELSE IF IsNumeric(val) THEN Num(IntOf(val))
  ELSE Text(val)

\* whether float(v) succeeds (None raises TypeError, other text ValueError)
FloatOk(v) == v.t = "num" \/ (v.t = "text" /\ IsNumeric(v.s))

\* float(v) when it succeeds
FloatOf(v) == IF v.t = "num" THEN v.n ELSE IntOf(v.s)

(***************************************************************************)
(* Condition tree and evaluator (core/where.py)                            *)
(***************************************************************************)
Comparison(column, operator, value) ==
  [k |-> "Comparison", column |-> column, operator |-> operator,
   value |-> value]

And(left, right) == [k |-> "And", left |-> left, right |-> right]

Or(left, right) == [k |-> "Or", left |-> left, right |-> right]

Not(condition) == [k |-> "Not", condition |-> condition]

\* list.index / tuple.index: the first position holding x (1-based)
IndexOf(seq, x) ==
  CHOOSE i \in 1..Len(seq) : seq[i] = x /\ \A j \in 1..(i - 1) : seq[j] # x

InSeq(seq, x) == \E i \in 1..Len(seq) : seq[i] = x

\* the six branches of the try block: both operands converted by float()
NumericCompare(operator, a, b) ==
  CASE operator = <<"=">> -> a = b
    [] operator = <<"<">> -> a < b
    [] operator = <<">">> -> a > b
    [] operator = <<"<", "=">> -> a <= b
    [] operator = <<">", "=">> -> a >= b
    [] operator = <<"!", "=">> -> a # b
    [] OTHER -> FALSE

\* the six branches of the except block, on the values as stored: == and !=
\* are defined between any two values, an ordering only between two texts
\* (None or an int against a text raises TypeError)
FallbackCompare(operator, a, b) ==
  CASE operator = <<"=">> -> IF a = b THEN "True" ELSE "False"
    [] operator = <<"!", "=">> -> IF a # b THEN "True" ELSE "False"
    [] operator \in {<<"<">>, <<">">>, <<"<", "=">>, <<">", "=">>} ->
         IF a.t = "text" /\ b.t = "text"
         THEN IF CASE operator = <<"<">> -> StrLess(a.s, b.s)
                   [] operator = <<">">> -> StrLess(b.s, a.s)
                   [] operator = <<"<", "=">> -> ~StrLess(b.s, a.s)
                   [] OTHER -> ~StrLess(a.s, b.s)
              THEN "True" ELSE "False"
         ELSE "TypeError"
    [] OTHER -> "False"

\* Comparison.evaluate without its test for a missing column: tuple.index
\* raises ValueError
EvaluateComparisonUnchecked(c, row, columns) ==
  IF ~InSeq(columns, c.column) THEN "ValueError"
  ELSE LET row_value == row[IndexOf(columns, c.column)]
       IN  IF FloatOk(row_value) /\ FloatOk(c.value)
           THEN IF NumericCompare(c.operator, FloatOf(row_value),
                                  FloatOf(c.value))
                THEN "True" ELSE "False"
           ELSE FallbackCompare(c.operator, row_value, c.value)

\* Comparison.evaluate: "True", "False", or the exception it raises
EvaluateComparison(c, row, columns) ==
  IF ~InSeq(columns, c.column) THEN "False"
  ELSE LET col_idx == IndexOf(columns, c.column)
       IN  IF col_idx > Len(row) THEN "IndexError"
           ELSE LET row_value == row[col_idx]
                IN  IF FloatOk(row_value) /\ FloatOk(c.value)
                    THEN IF NumericCompare(c.operator, FloatOf(row_value),
                                           FloatOf(c.value))
                         THEN "True" ELSE "False"
                    ELSE FallbackCompare(c.operator, row_value, c.value)

RECURSIVE evaluate(_, _, _)
\* Condition.evaluate for the four node kinds; `and` / `or` short-circuit
evaluate(c, row, columns) ==
  CASE c.k = "Comparison" -> EvaluateComparison(c, row, columns)
    [] c.k = "And" ->
         LET l == evaluate(c.left, row, columns)
         IN  IF l = "True" THEN evaluate(c.right, row, columns) ELSE l
    [] c.k = "Or" ->
         LET l == evaluate(c.left, row, columns)
         IN  IF l = "False" THEN evaluate(c.right, row, columns) ELSE l
    [] OTHER ->
         LET v == evaluate(c.condition, row, columns)
         IN  IF v = "True" THEN "False"
             ELSE IF v = "False" THEN "True" ELSE v

(***************************************************************************)
(* Statement parser (parser/parser.py).  The structural regular expression *)
(* of each statement is taken as matched: a statement is given by the      *)
(* texts of its capture groups, and everything the parser does with those  *)
(* texts is computed on their characters.                                  *)
(***************************************************************************)
Parsed(c) == [ok |-> TRUE, cond |-> c, error |-> ""]

ParseError(e) == [ok |-> FALSE, cond |-> <<>>, error |-> e]

\* the operators in the order the parser looks for them
ComparisonOps ==
  << <<"=">>, <<"<", ">">>, <<"!", "=">>, <<">">>, <<"<">>, <<">", "=">>,
     <<"<", "=">> >>

\* lines 177-199: the first operator of ComparisonOps that occurs anywhere
\* in the text splits it at its first occurrence
ParseComparison(where_clause) ==
  IF \E n \in 1..Len(ComparisonOps) : Contains(where_clause, ComparisonOps[n])
  THEN LET n == CHOOSE m \in 1..Len(ComparisonOps) :
                  /\ Contains(where_clause, ComparisonOps[m])
                  /\ \A j \in 1..(m - 1) :
                        ~Contains(where_clause, ComparisonOps[j])
           op == ComparisonOps[n]
           parts == SplitFirst(where_clause, op)
       IN  Parsed(Comparison(Strip(parts[1]), op, ParseLiteral(Strip(parts[2]))))
  ELSE ParseError("SyntaxError")

RECURSIVE parse_where_clause_or_first(_)
\* parse_where_clause, were ' OR ' looked for before ' AND '
parse_where_clause_or_first(where_clause) ==
  IF Contains(Upper(where_clause), <<" ", "O", "R", " ">>)
  THEN IF Contains(where_clause, <<" ", "O", "R", " ">>)
       THEN LET parts == SplitFirst(where_clause, <<" ", "O", "R", " ">>)
                l == parse_where_clause_or_first(parts[1])
                r == parse_where_clause_or_first(parts[2])
            IN  IF ~l.ok THEN l
                ELSE IF ~r.ok THEN r
                ELSE Parsed(Or(l.cond, r.cond))
       ELSE ParseError("UnpackError")
  ELSE IF Contains(Upper(where_clause), <<" ", "A", "N", "D", " ">>)
  THEN IF Contains(where_clause, <<" ", "A", "N", "D", " ">>)
       THEN LET parts == SplitFirst(where_clause, <<" ", "A", "N", "D", " ">>)
                l == parse_where_clause_or_first(parts[1])
                r == parse_where_clause_or_first(parts[2])
            IN  IF ~l.ok THEN l
                ELSE IF ~r.ok THEN r
                ELSE Parsed(And(l.cond, r.cond))
       ELSE ParseError("UnpackError")
  ELSE IF StartsWith(Upper(where_clause), <<"N", "O", "T", " ">>)
  THEN LET c == parse_where_clause_or_first(SubSeq(where_clause, 5, Len(where_clause)))
       IN  IF c.ok THEN Parsed(Not(c.cond)) ELSE c
  ELSE ParseComparison(where_clause)

RECURSIVE parse_where_clause(_)
\* the keyword is looked for in the upper-cased text, the split is made on
\* the text as written: `left, right = ...split(' AND ', 1)` raises
\* ValueError (not enough values to unpack) when the split yields a single
\* piece, and the last line raises ValueError (Invalid WHERE clause)
parse_where_clause(where_clause) ==
  IF Contains(Upper(where_clause), <<" ", "A", "N", "D", " ">>)
  THEN IF Contains(where_clause, <<" ", "A", "N", "D", " ">>)
       THEN LET parts == SplitFirst(where_clause, <<" ", "A", "N", "D", " ">>)
                l == parse_where_clause(parts[1])
                r == parse_where_clause(parts[2])
            IN  IF ~l.ok THEN l
                ELSE IF ~r.ok THEN r
                ELSE Parsed(And(l.cond, r.cond))
       ELSE ParseError("UnpackError")
  ELSE IF Contains(Upper(where_clause), <<" ", "O", "R", " ">>)
  THEN IF Contains(where_clause, <<" ", "O", "R", " ">>)
       THEN LET parts == SplitFirst(where_clause, <<" ", "O", "R", " ">>)
                l == parse_where_clause(parts[1])
                r == parse_where_clause(parts[2])
            IN  IF ~l.ok THEN l
                ELSE IF ~r.ok THEN r
                ELSE Parsed(Or(l.cond, r.cond))
       ELSE ParseError("UnpackError")
  ELSE IF StartsWith(Upper(where_clause), <<"N", "O", "T", " ">>)
  THEN LET c == parse_where_clause(SubSeq(where_clause, 5, Len(where_clause)))
       IN  IF c.ok THEN Parsed(Not(c.cond)) ELSE c
  ELSE ParseComparison(where_clause)

RECURSIVE SplitAll(_, _)
\* str.split(sep) for a one-character separator
SplitAll(s, sep) ==
  IF Contains(s, sep)
  THEN LET parts == SplitFirst(s, sep)
       IN  <<parts[1]>> \o SplitAll(parts[2], sep)
  ELSE <<s>>

\* [col.strip() for col in columns_str.split(',')]
SplitColumns(columns_str) ==
  LET parts == SplitAll(columns_str, <<",">>)
  IN  [i \in 1..Len(parts) |-> Strip(parts[i])]

\* parse_create_table on the column list of the statement
parse_create_table(columns_str) == SplitColumns(columns_str)

\* parse_select on the column list of the statement: <<>> stands for None
\* (all columns); a split never yields an empty list
ParseSelectColumns(columns_str) ==
  IF Strip(columns_str) = <<"*">> THEN <<>> ELSE SplitColumns(columns_str)

RECURSIVE SplitValuesAtEveryComma(_, _, _, _, _)
\* the loop of parse_insert, were every comma a separator
SplitValuesAtEveryComma(rest, values, current, in_quotes, quote_char) ==
  IF Len(rest) = 0
  THEN IF Len(current) > 0 THEN Append(values, Strip(current)) ELSE values
  ELSE IF rest[1] = ","
  THEN SplitValuesAtEveryComma(Tail(rest), Append(values, Strip(current)), <<>>,
                               in_quotes, quote_char)
  ELSE SplitValuesAtEveryComma(Tail(rest), values, Append(current, rest[1]),
                               in_quotes, quote_char)

RECURSIVE SplitValues(_, _, _, _, _)
\* lines 66-92 of parse_insert: one step per character of values_str, with
\* the loop's variables values, current, in_quotes and quote_char
SplitValues(rest, values, current, in_quotes, quote_char) ==
  IF Len(rest) = 0
  THEN IF Len(current) > 0 THEN Append(values, Strip(current)) ELSE values
  ELSE LET char == rest[1]
       IN  IF /\ char \in {"\"", "'"}
              /\ (Len(current) = 0 \/ current[Len(current)] # "\\")
           THEN IF ~in_quotes
                THEN SplitValues(Tail(rest), values, Append(current, char),
                                 TRUE, char)
                ELSE IF quote_char = char
                THEN SplitValues(Tail(rest), values, Append(current, char),
                                 FALSE, "")
                ELSE SplitValues(Tail(rest), values, Append(current, char),
                                 in_quotes, quote_char)
           ELSE IF char = "," /\ ~in_quotes
           THEN SplitValues(Tail(rest), Append(values, Strip(current)), <<>>,
                            in_quotes, quote_char)
           ELSE SplitValues(Tail(rest), values, Append(current, char),
                            in_quotes, quote_char)

\* parse_insert on the value list of the statement: split, then clean
parse_insert(values_str) ==
  LET values == SplitValues(values_str, <<>>, <<>>, FALSE, "")
  IN  [i \in 1..Len(values) |-> ParseLiteral(values[i])]

(***************************************************************************)
(* Table (core/table.py)                                                   *)
(***************************************************************************)
Table(name, columns) == [name |-> name, columns |-> columns, rows |-> <<>>]

\* what a method returns: the table, or the exception it raised.  Every
\* exception of the engine is a ValueError; the model names it by its message
\* (ArityMismatch: "Expected n values, got m"; SchemaMismatch: "Cannot union
\* tables with different schemas"; JoinColumnNotFound: "Join column ... not
\* found"; TableAlreadyExists; TableNotFound; Unsupported: "Unsupported query
\* type"), or by its Python type when the interpreter raised it
Returned(t) == [ok |-> TRUE, table |-> t, error |-> ""]

Raised(e) == [ok |-> FALSE, table |-> Table(<<>>, <<>>), error |-> e]

\* Table.insert without its length check
TableInsertUnchecked(self, values) ==
  Returned([self EXCEPT !.rows = Append(self.rows, values)])

\* Table.insert: the table after the call, or ValueError
TableInsert(self, values) ==
  IF Len(values) # Len(self.columns) THEN Raised("ArityMismatch")
  ELSE Returned([self EXCEPT !.rows = Append(self.rows, values)])

\* Table.clone
clone(self, name) == [name |-> name, columns |-> self.columns, rows |-> self.rows]

\* no condition_func given
NoCondition == [k |-> "None"]

RECURSIVE SelectRowsReversed(_, _, _)
\* the loop of Table.select, were each kept row put in front of the result
SelectRowsReversed(rows, condition, columns) ==
  IF Len(rows) = 0 THEN [ok |-> TRUE, rows |-> <<>>, error |-> ""]
  ELSE LET v == evaluate(condition, rows[1], columns)
       IN  IF v \notin {"True", "False"}
           THEN [ok |-> FALSE, rows |-> <<>>, error |-> v]
           ELSE LET more == SelectRowsReversed(Tail(rows), condition, columns)
                IN  IF ~more.ok THEN more
                    ELSE IF v = "True"
                    THEN [more EXCEPT !.rows = more.rows \o <<rows[1]>>]
                    ELSE more

RECURSIVE SelectRows(_, _, _)
\* the loop of Table.select: the rows kept so far, or the first exception
\* the condition raises
SelectRows(rows, condition, columns) ==
  IF Len(rows) = 0 THEN [ok |-> TRUE, rows |-> <<>>, error |-> ""]
  ELSE LET v == evaluate(condition, rows[1], columns)
       IN  IF v \notin {"True", "False"}
           THEN [ok |-> FALSE, rows |-> <<>>, error |-> v]
           ELSE LET more == SelectRows(Tail(rows), condition, columns)
                IN  IF ~more.ok THEN more
                    ELSE IF v = "True"
                    THEN [more EXCEPT !.rows = <<rows[1]>> \o more.rows]
                    ELSE more

\* Table.select
TableSelect(self, condition) ==
  IF condition = NoCondition
  THEN Returned([Table(self.name, self.columns) EXCEPT !.rows = self.rows])
  ELSE LET kept == SelectRows(self.rows, condition, self.columns)
       IN  IF kept.ok
           THEN Returned([Table(self.name, self.columns) EXCEPT !.rows = kept.rows])
           ELSE Raised(kept.error)

\* Table.project
TableProject(self, proj_columns) ==
  IF Len(proj_columns) = 0 THEN clone(self, self.name)
  ELSE LET present == SelectSeq(proj_columns, LAMBDA col : InSeq(self.columns, col))
           indices == [i \in 1..Len(present) |-> IndexOf(self.columns, present[i])]
       IN  [Table(self.name, proj_columns) EXCEPT
              !.rows = [r \in 1..Len(self.rows) |->
                          [i \in 1..Len(indices) |-> self.rows[r][indices[i]]]]]

\* the rows of a table as a set (set(self.rows))
RowSet(rows) == {rows[i] : i \in 1..Len(rows)}

\* the name f"{a}{sep}{b}"
Joined(a, sep, b) == a \o sep \o b

\* Table.union, were the schemas compared by their lengths only
TableUnionByLength(self, other) ==
  IF Len(self.columns) # Len(other.columns) THEN Raised("SchemaMismatch")
  ELSE LET existing_rows == RowSet(self.rows)
       IN  Returned([clone(self, Joined(self.name, <<"_", "u", "n", "i", "o", "n", "_">>,
                                        other.name))
                      EXCEPT !.rows = self.rows \o
                        SelectSeq(other.rows, LAMBDA row : row \notin existing_rows)])

\* Table.union
TableUnion(self, other) ==
  IF self.columns # other.columns THEN Raised("SchemaMismatch")
  ELSE LET existing_rows == RowSet(self.rows)
       IN  Returned([clone(self, Joined(self.name, <<"_", "u", "n", "i", "o", "n", "_">>,
                                        other.name))
                      EXCEPT !.rows = self.rows \o
                        SelectSeq(other.rows, LAMBDA row : row \notin existing_rows)])

\* Table.intersection, were the rows taken from other instead of self
TableIntersectionOfOther(self, other) ==
  IF self.columns # other.columns THEN Raised("SchemaMismatch")
  ELSE LET self_rows == RowSet(self.rows)
       IN  Returned([Table(Joined(self.name,
                                  <<"_", "i", "n", "t", "e", "r", "s", "e", "c", "t", "_">>,
                                  other.name), self.columns)
                      EXCEPT !.rows =
                        SelectSeq(other.rows, LAMBDA row : row \in self_rows)])

\* Table.intersection
TableIntersection(self, other) ==
  IF self.columns # other.columns THEN Raised("SchemaMismatch")
  ELSE LET other_rows == RowSet(other.rows)
       IN  Returned([Table(Joined(self.name,
                                  <<"_", "i", "n", "t", "e", "r", "s", "e", "c", "t", "_">>,
                                  other.name), self.columns)
                      EXCEPT !.rows =
                        SelectSeq(self.rows, LAMBDA row : row \in other_rows)])

\* Table.difference
TableDifference(self, other) ==
  IF self.columns # other.columns THEN Raised("SchemaMismatch")
  ELSE LET other_rows == RowSet(other.rows)
       IN  Returned([Table(Joined(self.name, <<"_", "d", "i", "f", "f", "_">>,
                                  other.name), self.columns)
                      EXCEPT !.rows =
                        SelectSeq(self.rows, LAMBDA row : row \notin other_rows)])

RECURSIVE Flatten(_)
\* the concatenation of a sequence of sequences
Flatten(seqs) == IF Len(seqs) = 0 THEN <<>> ELSE seqs[1] \o Flatten(Tail(seqs))

\* Table.cartesian_product, were the loop over other the outer one
TableProductOtherMajor(self, other) ==
  LET duplicate_cols == RowSet(self.columns) \cap RowSet(other.columns)
      all_columns ==
        self.columns \o
        [i \in 1..Len(other.columns) |->
           IF other.columns[i] \in duplicate_cols
           THEN Joined(other.name, <<".">>, other.columns[i])
           ELSE other.columns[i]]
  IN  [Table(Joined(self.name, <<"_", "p", "r", "o", "d", "u", "c", "t", "_">>,
                    other.name), all_columns)
        EXCEPT !.rows =
          Flatten([j \in 1..Len(other.rows) |->
                     [i \in 1..Len(self.rows) |-> self.rows[i] \o other.rows[j]]])]

\* Table.cartesian_product
TableProduct(self, other) ==
  LET duplicate_cols == RowSet(self.columns) \cap RowSet(other.columns)
      all_columns ==
        self.columns \o
        [i \in 1..Len(other.columns) |->
           IF other.columns[i] \in duplicate_cols
           THEN Joined(other.name, <<".">>, other.columns[i])
           ELSE other.columns[i]]
  IN  [Table(Joined(self.name, <<"_", "p", "r", "o", "d", "u", "c", "t", "_">>,
                    other.name), all_columns)
        EXCEPT !.rows =
          Flatten([i \in 1..Len(self.rows) |->
                     [j \in 1..Len(other.rows) |-> self.rows[i] \o other.rows[j]]])]

\* the truth value of a Table without __bool__: Python falls back on __len__
TableBoolByLen(t) == Len(t.rows) > 0

\* Table.__bool__: a table is truthy whether or not it holds rows
TableBool(t) == TRUE

(***************************************************************************)
(* Joins (engine/join.py)                                                  *)
(***************************************************************************)
\* right_join_column=None
NoColumn == <<"None">>

\* what _find_join_column returns: the column, or that it raised ValueError
FoundColumn(col) == [ok |-> TRUE, column |-> col]

ColumnNotFound == [ok |-> FALSE, column |-> NoColumn]

\* _find_join_column, were f"{join_column}_id" looked for before
\* f"{left_table.name}_{join_column}"
FindJoinColumnIdFirst(left_table, right_table, join_column) ==
  LET cols == right_table.columns
      by_table == Joined(left_table.name, <<"_">>, join_column)
      by_id == join_column \o <<"_", "i", "d">>
      table_id == left_table.name \o <<"_", "i", "d">>
      student_id == <<"s", "t", "u", "d", "e", "n", "t", "_", "i", "d">>
      ending == SelectSeq(cols, LAMBDA col :
                  EndsWith(col, join_column) \/ EndsWith(col, <<"_">> \o join_column))
  IN  IF InSeq(cols, join_column) THEN FoundColumn(join_column)
      ELSE IF InSeq(cols, by_id) THEN FoundColumn(by_id)
      ELSE IF InSeq(cols, by_table) THEN FoundColumn(by_table)
      ELSE IF InSeq(cols, table_id) THEN FoundColumn(table_id)
      ELSE IF join_column = <<"i", "d">> /\ InSeq(cols, student_id)
      THEN FoundColumn(student_id)
      ELSE IF Len(ending) > 0 THEN FoundColumn(ending[1])
      ELSE ColumnNotFound

\* _find_join_column
FindJoinColumn(left_table, right_table, join_column) ==
  LET cols == right_table.columns
      by_table == Joined(left_table.name, <<"_">>, join_column)
      by_id == join_column \o <<"_", "i", "d">>
      table_id == left_table.name \o <<"_", "i", "d">>
      student_id == <<"s", "t", "u", "d", "e", "n", "t", "_", "i", "d">>
      ending == SelectSeq(cols, LAMBDA col :
                  EndsWith(col, join_column) \/ EndsWith(col, <<"_">> \o join_column))
  IN  IF InSeq(cols, join_column) THEN FoundColumn(join_column)
      ELSE IF InSeq(cols, by_table) THEN FoundColumn(by_table)
      ELSE IF InSeq(cols, by_id) THEN FoundColumn(by_id)
      ELSE IF InSeq(cols, table_id) THEN FoundColumn(table_id)
      ELSE IF join_column = <<"i", "d">> /\ InSeq(cols, student_id)
      THEN FoundColumn(student_id)
      ELSE IF Len(ending) > 0 THEN FoundColumn(ending[1])
      ELSE ColumnNotFound

RECURSIVE JoinedColumns(_, _, _, _)
\* lines 80-97 of _prepare_join: joined_columns after the loop over the
\* right table's remaining columns
JoinedColumns(joined_columns, right_columns, right_join_column, right_name) ==
  IF Len(right_columns) = 0 THEN joined_columns
  ELSE LET col == right_columns[1]
       IN  IF col = right_join_column
           THEN JoinedColumns(joined_columns, Tail(right_columns),
                              right_join_column, right_name)
           ELSE IF InSeq(joined_columns, col)
           THEN JoinedColumns(Append(joined_columns, Joined(right_name, <<".">>, col)),
                              Tail(right_columns), right_join_column, right_name)
           ELSE JoinedColumns(Append(joined_columns, col), Tail(right_columns),
                              right_join_column, right_name)

\* the name f"{left}_{join_type}_join_{right}" of a join's result
JoinName(left_name, join_type, right_name) ==
  left_name \o <<"_">> \o join_type \o <<"_", "j", "o", "i", "n", "_">> \o right_name

\* _prepare_join: the empty result table, the two join indices and the
\* number of right-origin columns, or ValueError
PrepareJoin(left_table, right_table, join_column, right_join_column, join_type) ==
  LET found == IF right_join_column = NoColumn
               THEN FindJoinColumn(left_table, right_table, join_column)
               ELSE FoundColumn(right_join_column)
  IN  IF ~found.ok THEN [ok |-> FALSE]
      ELSE IF ~InSeq(left_table.columns, join_column) THEN [ok |-> FALSE]
      ELSE IF ~InSeq(right_table.columns, found.column) THEN [ok |-> FALSE]
      ELSE LET joined_columns ==
                 JoinedColumns(left_table.columns, right_table.columns,
                               found.column, right_table.name)
           IN  [ok |-> TRUE,
                result |-> Table(JoinName(left_table.name, join_type,
                                          right_table.name), joined_columns),
                left_join_idx |-> IndexOf(left_table.columns, join_column),
                right_join_idx |-> IndexOf(right_table.columns, found.column),
                right_cols |-> Len(joined_columns) - Len(left_table.columns)]

\* a right row without the value at the right join index
WithoutIndex(row, idx) == SubSeq(row, 1, idx - 1) \o SubSeq(row, idx + 1, Len(row))

\* right_rows_by_key[key]: the right rows holding key, in table order
RowsByKey(right_rows, right_join_idx, key) ==
  SelectSeq(right_rows, LAMBDA right_row : right_row[right_join_idx] = key)

\* n times None
Nulls(n) == [i \in 1..n |-> Null]

\* inner_join, were only the first right row of a key joined
inner_join_first_match(left_table, right_table, join_column, right_join_column) ==
  LET p == PrepareJoin(left_table, right_table, join_column, right_join_column,
                       <<"i", "n", "n", "e", "r">>)
  IN  IF ~p.ok THEN Raised("JoinColumnNotFound")
      ELSE Returned([p.result EXCEPT !.rows =
             Flatten([i \in 1..Len(left_table.rows) |->
               LET left_row == left_table.rows[i]
                   matches == RowsByKey(right_table.rows, p.right_join_idx,
                                        left_row[p.left_join_idx])
               IN  IF Len(matches) > 0
                   THEN <<left_row \o WithoutIndex(matches[1], p.right_join_idx)>>
                   ELSE <<>>])])

\* inner_join
inner_join(left_table, right_table, join_column, right_join_column) ==
  LET p == PrepareJoin(left_table, right_table, join_column, right_join_column,
                       <<"i", "n", "n", "e", "r">>)
  IN  IF ~p.ok THEN Raised("JoinColumnNotFound")
      ELSE Returned([p.result EXCEPT !.rows =
             Flatten([i \in 1..Len(left_table.rows) |->
               LET left_row == left_table.rows[i]
                   matches == RowsByKey(right_table.rows, p.right_join_idx,
                                        left_row[p.left_join_idx])
               IN  [j \in 1..Len(matches) |->
                      left_row \o WithoutIndex(matches[j], p.right_join_idx)]])])

\* left_join without its else branch: a left row without a match is dropped
left_join_matched_only(left_table, right_table, join_column, right_join_column) ==
  LET p == PrepareJoin(left_table, right_table, join_column, right_join_column,
                       <<"l", "e", "f", "t">>)
  IN  IF ~p.ok THEN Raised("JoinColumnNotFound")
      ELSE Returned([p.result EXCEPT !.rows =
             Flatten([i \in 1..Len(left_table.rows) |->
               LET left_row == left_table.rows[i]
                   matches == RowsByKey(right_table.rows, p.right_join_idx,
                                        left_row[p.left_join_idx])
               IN  [j \in 1..Len(matches) |->
                      left_row \o WithoutIndex(matches[j], p.right_join_idx)]])])

\* left_join
left_join(left_table, right_table, join_column, right_join_column) ==
  LET p == PrepareJoin(left_table, right_table, join_column, right_join_column,
                       <<"l", "e", "f", "t">>)
  IN  IF ~p.ok THEN Raised("JoinColumnNotFound")
      ELSE Returned([p.result EXCEPT !.rows =
             Flatten([i \in 1..Len(left_table.rows) |->
               LET left_row == left_table.rows[i]
                   matches == RowsByKey(right_table.rows, p.right_join_idx,
                                        left_row[p.left_join_idx])
               IN  IF Len(matches) > 0
                   THEN [j \in 1..Len(matches) |->
                           left_row \o WithoutIndex(matches[j], p.right_join_idx)]
                   ELSE <<left_row \o Nulls(p.right_cols)>>])])

\* right_join, were the tables not swapped: the left join itself
right_join_unswapped(left_table, right_table, join_column, right_join_column) ==
  LET found == IF right_join_column = NoColumn
               THEN FindJoinColumn(left_table, right_table, join_column)
               ELSE FoundColumn(right_join_column)
  IN  IF ~found.ok THEN Raised("JoinColumnNotFound")
      ELSE left_join(left_table, right_table, join_column, found.column)

\* right_join: a left join with the tables and the join columns swapped
right_join(left_table, right_table, join_column, right_join_column) ==
  LET found == IF right_join_column = NoColumn
               THEN FindJoinColumn(left_table, right_table, join_column)
               ELSE FoundColumn(right_join_column)
  IN  IF ~found.ok THEN Raised("JoinColumnNotFound")
      ELSE left_join(right_table, left_table, found.column, join_column)

\* full_join without its second loop: the left join alone
full_join_left_only(left_table, right_table, join_column, right_join_column) ==
  LET found == IF right_join_column = NoColumn
               THEN FindJoinColumn(left_table, right_table, join_column)
               ELSE FoundColumn(right_join_column)
  IN  IF ~found.ok THEN Raised("JoinColumnNotFound")
      ELSE left_join(left_table, right_table, join_column, found.column)

\* full_join: the left join, then the right rows whose key no left row holds
full_join(left_table, right_table, join_column, right_join_column) ==
  LET found == IF right_join_column = NoColumn
               THEN FindJoinColumn(left_table, right_table, join_column)
               ELSE FoundColumn(right_join_column)
  IN  IF ~found.ok THEN Raised("JoinColumnNotFound")
      ELSE LET joined == left_join(left_table, right_table, join_column, found.column)
           IN  IF ~joined.ok THEN joined
               ELSE LET left_join_idx == IndexOf(left_table.columns, join_column)
                        right_join_idx == IndexOf(right_table.columns, found.column)
                        left_keys == {left_table.rows[i][left_join_idx] :
                                        i \in 1..Len(left_table.rows)}
                        unmatched == SelectSeq(right_table.rows, LAMBDA right_row :
                                       right_row[right_join_idx] \notin left_keys)
                    IN  Returned([joined.table EXCEPT !.rows = joined.table.rows \o
                          [i \in 1..Len(unmatched) |->
                             Nulls(Len(left_table.columns)) \o
                             WithoutIndex(unmatched[i], right_join_idx)]])

(***************************************************************************)
(* Database (engine/db.py)                                                 *)
(***************************************************************************)
NoTable == Table(<<>>, <<>>)

\* Database.get_table: self.tables.get(name)
get_table(tabs, name) ==
  IF name \in DOMAIN tabs
  THEN [found |-> TRUE, table |-> tabs[name]]
  ELSE [found |-> FALSE, table |-> NoTable]

\* `not table` for what get_table returned (None is falsy)
NotTable(got) == ~got.found \/ ~TableBool(got.table)

\* the registry with name bound to t
Bind(tabs, name, t) ==
  [n \in DOMAIN tabs \cup {name} |-> IF n = name THEN t ELSE tabs[n]]

\* what a Database call leaves behind: the registry, whether it returned or
\* raised, and the table it returned (SELECT and the relational operations)
Reply(tabs, returns, t) ==
  [tables |-> tabs, status |-> "ok", error |-> "", returns |-> returns,
   table |-> t]

Failure(tabs, e) ==
  [tables |-> tabs, status |-> "error", error |-> e, returns |-> "none",
   table |-> NoTable]

\* Database.create_table without its check for an existing name
create_table_replacing(tabs, name, columns) ==
  Reply(Bind(tabs, name, Table(name, columns)), "table", Table(name, columns))

\* Database.create_table
create_table(tabs, name, columns) ==
  IF name \in DOMAIN tabs THEN Failure(tabs, "TableAlreadyExists")
  ELSE Reply(Bind(tabs, name, Table(name, columns)), "table", Table(name, columns))

\* Database.drop_table, were every table deleted with the one named
drop_table_clearing(tabs, name) ==
  IF name \in DOMAIN tabs
  THEN Reply([n \in {} |-> NoTable], "True", NoTable)
  ELSE Reply(tabs, "False", NoTable)

\* Database.drop_table
drop_table(tabs, name) ==
  IF name \in DOMAIN tabs
  THEN Reply([n \in DOMAIN tabs \ {name} |-> tabs[n]], "True", NoTable)
  ELSE Reply(tabs, "False", NoTable)

RECURSIVE SortedNames(_)
\* sorted(names): the names in ascending order
SortedNames(names) ==
  IF names = {} THEN <<>>
  ELSE LET least == CHOOSE a \in names : \A b \in names \ {a} : StrLess(a, b)
       IN  <<least>> \o SortedNames(names \ {least})

\* Database.list_tables
list_tables(tabs) == SortedNames(DOMAIN tabs)

\* a statement: the keyword parse_query dispatches on and the texts of the
\* capture groups of that statement's regular expression
Statement(kind, table, columns, values, set, where) ==
  [kind |-> kind, table |-> table, columns |-> columns, values |-> values,
   set |-> set, where |-> where]

\* the CREATE branch of Database.query
QueryCreate(tabs, stmt) ==
  LET made == create_table(tabs, stmt.table, parse_create_table(stmt.columns))
  IN  IF made.status = "ok" THEN Reply(made.tables, "message", NoTable) ELSE made

\* the INSERT branch of Database.query, appending before the length is checked
QueryInsertAppendFirst(tabs, stmt) ==
  LET values == parse_insert(stmt.values)
      got == get_table(tabs, stmt.table)
      appended == [got.table EXCEPT !.rows = Append(got.table.rows, values)]
  IN  IF NotTable(got) THEN Failure(tabs, "TableNotFound")
      ELSE IF Len(values) # Len(got.table.columns)
      THEN Failure(Bind(tabs, stmt.table, appended), "ArityMismatch")
      ELSE Reply(Bind(tabs, stmt.table, appended), "message", NoTable)

\* the INSERT branch of Database.query
QueryInsert(tabs, stmt) ==
  LET values == parse_insert(stmt.values)
      got == get_table(tabs, stmt.table)
  IN  IF NotTable(got) THEN Failure(tabs, "TableNotFound")
      ELSE LET done == TableInsert(got.table, values)
           IN  IF done.ok
               THEN Reply(Bind(tabs, stmt.table, done.table), "message", NoTable)
               ELSE Failure(tabs, done.error)

\* the SELECT branch of Database.query, were the projection applied before
\* the selection
QuerySelectProjectFirst(tabs, stmt) ==
  LET columns == ParseSelectColumns(stmt.columns)
      parsed == IF Len(stmt.where) > 0 THEN parse_where_clause(stmt.where)
                ELSE Parsed(NoCondition)
      got == get_table(tabs, stmt.table)
  IN  IF ~parsed.ok THEN Failure(tabs, parsed.error)
      ELSE IF NotTable(got) THEN Failure(tabs, "TableNotFound")
      ELSE LET projected == IF Len(columns) > 0
                            THEN TableProject(got.table, columns)
                            ELSE got.table
               selected == TableSelect(projected, parsed.cond)
           IN  IF ~selected.ok THEN Failure(tabs, selected.error)
               ELSE Reply(tabs, "table", selected.table)

\* the SELECT branch of Database.query, storing its result under the name
\* of the table it read
QuerySelectStoring(tabs, stmt) ==
  LET columns == ParseSelectColumns(stmt.columns)
      parsed == IF Len(stmt.where) > 0 THEN parse_where_clause(stmt.where)
                ELSE Parsed(NoCondition)
      got == get_table(tabs, stmt.table)
  IN  IF ~parsed.ok THEN Failure(tabs, parsed.error)
      ELSE IF NotTable(got) THEN Failure(tabs, "TableNotFound")
      ELSE LET selected == TableSelect(got.table, parsed.cond)
               projected == IF Len(columns) > 0
                            THEN TableProject(selected.table, columns)
                            ELSE selected.table
           IN  IF ~selected.ok THEN Failure(tabs, selected.error)
               ELSE Reply(Bind(tabs, stmt.table, projected), "table", projected)

\* the SELECT branch of Database.query: parse_select, then select, then
\* project
QuerySelect(tabs, stmt) ==
  LET columns == ParseSelectColumns(stmt.columns)
      parsed == IF Len(stmt.where) > 0 THEN parse_where_clause(stmt.where)
                ELSE Parsed(NoCondition)
      got == get_table(tabs, stmt.table)
  IN  IF ~parsed.ok THEN Failure(tabs, parsed.error)
      ELSE IF NotTable(got) THEN Failure(tabs, "TableNotFound")
      ELSE LET selected == TableSelect(got.table, parsed.cond)
           IN  IF ~selected.ok THEN Failure(tabs, selected.error)
               ELSE IF Len(columns) > 0
               THEN Reply(tabs, "table", TableProject(selected.table, columns))
               ELSE Reply(tabs, "table", selected.table)

\* whether parse_update accepts the SET list: every item holds an '='
SetClauseOk(set_clause) ==
  LET set_items == SplitAll(set_clause, <<",">>)
  IN  \A i \in 1..Len(set_items) : Contains(set_items[i], <<"=">>)

\* lines 224-251 of parse_update: the (column, value) pairs of the SET list,
\* in the order written
ParseSetClause(set_clause) ==
  LET set_items == SplitAll(set_clause, <<",">>)
  IN  [i \in 1..Len(set_items) |->
         LET parts == SplitFirst(set_items[i], <<"=">>)
         IN  [col |-> Strip(parts[1]), val |-> ParseLiteral(Strip(parts[2]))]]

\* UPDATE and DELETE FROM are parsed (parse_update, parse_delete) and then
\* reach the final else of Database.query
QueryOther(tabs, stmt) ==
  LET parsed == IF Len(stmt.where) > 0 THEN parse_where_clause(stmt.where)
                ELSE Parsed(NoCondition)
  IN  IF stmt.kind = "UPDATE" /\ ~SetClauseOk(stmt.set)
      THEN Failure(tabs, "SyntaxError")
      ELSE IF stmt.kind \in {"UPDATE", "DELETE"} /\ ~parsed.ok
      THEN Failure(tabs, parsed.error)
      ELSE Failure(tabs, "Unsupported")

\* Database.query
query(tabs, stmt) ==
  CASE stmt.kind = "CREATE" -> QueryCreate(tabs, stmt)
    [] stmt.kind = "INSERT" -> QueryInsert(tabs, stmt)
    [] stmt.kind = "SELECT" -> QuerySelect(tabs, stmt)
    [] OTHER -> QueryOther(tabs, stmt)

\* a Table method's return, as a Database reply that leaves the registry alone
FromTable(tabs, r) ==
  IF r.ok THEN Reply(tabs, "table", r.table) ELSE Failure(tabs, r.error)

\* Database.join
DatabaseJoin(tabs, left_table_name, right_table_name, join_type, join_column) ==
  LET left_table == get_table(tabs, left_table_name)
      right_table == get_table(tabs, right_table_name)
  IN  IF NotTable(left_table) \/ NotTable(right_table)
      THEN Failure(tabs, "TableNotFound")
      ELSE CASE join_type = "inner" ->
                  FromTable(tabs, inner_join(left_table.table, right_table.table,
                                             join_column, NoColumn))
             [] join_type = "left" ->
                  FromTable(tabs, left_join(left_table.table, right_table.table,
                                            join_column, NoColumn))
             [] join_type = "right" ->
                  FromTable(tabs, right_join(left_table.table, right_table.table,
                                             join_column, NoColumn))
             [] join_type = "full" ->
                  FromTable(tabs, full_join(left_table.table, right_table.table,
                                            join_column, NoColumn))
             [] OTHER -> Failure(tabs, "Unsupported")

(***************************************************************************)
(* Inputs: the names and statement texts the model draws from              *)
(***************************************************************************)
\* table names
TableNames == {<<"t">>, <<"u">>}


\* column lists of CREATE TABLE
ColumnTexts ==
  \* id, name
  {<<"i", "d", ",", " ", "n", "a", "m", "e">>,
  \* id
   <<"i", "d">>}

\* value lists of INSERT INTO
ValueTexts ==
  \* 1, 'Bob'
  {<<"1", ",", " ", "'", "B", "o", "b", "'">>,
  \* 2, 'Bob'
   <<"2", ",", " ", "'", "B", "o", "b", "'">>,
  \* 2, NULL
   <<"2", ",", " ", "N", "U", "L", "L">>,
  \* 1
   <<"1">>,
  \* 3
   <<"3">>,
  \* 1, 2, 3
   <<"1", ",", " ", "2", ",", " ", "3">>}

\* column lists of SELECT
SelectTexts ==
  \* *
  {<<"*">>,
  \* name
   <<"n", "a", "m", "e">>,
  \* name, zz
   <<"n", "a", "m", "e", ",", " ", "z", "z">>}

\* WHERE clauses; the empty text is a statement without WHERE
WhereTexts ==
  \* (no text)
  {<<>>,
  \* id > 1
   <<"i", "d", " ", ">", " ", "1">>,
  \* id > 1 AND name = 'Bob'
   <<"i", "d", " ", ">", " ", "1", " ", "A", "N", "D", " ", "n", "a", "m", "e", " ", "=", " ", "'", "B", "o", "b", "'">>,
  \* name < 'C'
   <<"n", "a", "m", "e", " ", "<", " ", "'", "C", "'">>,
  \* zz = 1
   <<"z", "z", " ", "=", " ", "1">>}

\* SET lists of UPDATE
SetTexts ==
  \* name = 'x'
  {<<"n", "a", "m", "e", " ", "=", " ", "'", "x", "'">>}

\* argument lists of Table.project: (name), (name, zz), (id, name)
ProjectLists ==
  {<<<<"n", "a", "m", "e">>>>,
   <<<<"n", "a", "m", "e">>, <<"z", "z">>>>,
   <<<<"i", "d">>, <<"n", "a", "m", "e">>>>}

\* join columns: id, name
JoinColumns == {<<"i", "d">>, <<"n", "a", "m", "e">>}

JoinTypes == {"inner", "left", "right", "full"}

\* the statements offered to Database.query
Statements ==
  {Statement("CREATE", n, c, <<>>, <<>>, <<>>) : n \in TableNames, c \in ColumnTexts}
  \cup {Statement("INSERT", n, <<>>, v, <<>>, <<>>) : n \in TableNames, v \in ValueTexts}
  \cup {Statement("SELECT", n, c, <<>>, <<>>, w) :
          n \in TableNames, c \in SelectTexts, w \in WhereTexts}
  \cup {Statement("UPDATE", n, <<>>, <<>>, a, w) :
          n \in TableNames, a \in SetTexts, w \in {<<>>, <<"i", "d", " ", "=", " ", "1">>}}
  \cup {Statement("DELETE", n, <<>>, <<>>, <<>>, w) :
          n \in TableNames, w \in {<<>>, <<"i", "d", " ", "=", " ", "1">>}}
  \cup {Statement("OTHER", <<>>, <<>>, <<>>, <<>>, <<>>)}

(***************************************************************************)
(* The state machine: one Database, called through its public methods and  *)
(* through the methods of the tables it hands out                          *)
(***************************************************************************)
\* the call just made: the method and its arguments
Call(op, stmt, name, other, columns, join_type) ==
  [op |-> op, stmt |-> stmt, name |-> name, other |-> other,
   columns |-> columns, join_type |-> join_type]

NoStatement == Statement("", <<>>, <<>>, <<>>, <<>>, <<>>)

\* no call is in progress and no reply is held by the caller
Idle == Call("idle", NoStatement, <<>>, <<>>, <<>>, "")

\* the history of INSERT statements after a call: a successful CREATE TABLE
\* starts the table's log, an INSERT of as many values as the table was
\* created with is logged whether or not it succeeds, a drop ends the log
IssuedAfter(call, reply) ==
  LET stmt == call.stmt
  IN  CASE call.op = "query" /\ stmt.kind = "CREATE" /\ reply.status = "ok" ->
             [n \in DOMAIN issued \cup {stmt.table} |->
                IF n = stmt.table
                THEN [width |-> Len(parse_create_table(stmt.columns)), rows |-> <<>>]
                ELSE issued[n]]
        [] call.op = "query" /\ stmt.kind = "INSERT"
             /\ stmt.table \in DOMAIN issued
             /\ Len(parse_insert(stmt.values)) = issued[stmt.table].width ->
             [issued EXCEPT ![stmt.table].rows = Append(@, parse_insert(stmt.values))]
        [] call.op = "drop_table" /\ reply.returns = "True" ->
             [n \in DOMAIN issued \ {call.name} |-> issued[n]]
        [] OTHER -> issued

\* the effect of a call: the registry, the reply and the returned table.  The
\* engine is synchronous: a call starts when the caller holds no pending reply
Effect(call, reply) ==
  /\ last = Idle
  /\ issued' = IssuedAfter(call, reply)
  /\ pre' = tables
  /\ last' = call
  /\ tables' = reply.tables
  /\ outcome' = [status |-> reply.status, error |-> reply.error,
                  returns |-> reply.returns]
  /\ result' = reply.table
  /\ tree' = NoCondition
  /\ listed' = <<>>

\* Database(): an empty registry
Init ==
  /\ tables = [n \in {} |-> NoTable]
  /\ pre = [n \in {} |-> NoTable]
  /\ last = Idle
  /\ issued = [n \in {} |-> [width |-> 0, rows |-> <<>>]]
  /\ outcome = [status |-> "ok", error |-> "", returns |-> "none"]
  /\ result = NoTable
  /\ tree = NoCondition
  /\ listed = <<>>

\* db.query(text)
Query(stmt) ==
  LET reply == query(tables, stmt)
      call == Call("query", stmt, <<>>, <<>>, <<>>, "")
      log == IssuedAfter(call, reply)
  IN  /\ last = Idle
      /\ \A n \in DOMAIN reply.tables : Len(reply.tables[n].rows) <= MaxRows
      /\ \A n \in DOMAIN log : Len(log[n].rows) <= MaxRows
      /\ Effect(call, reply)

\* db.drop_table(name)
DropTable(name) ==
  Effect(Call("drop_table", NoStatement, name, <<>>, <<>>, ""),
         drop_table(tables, name))

\* db.get_table(name).project(*columns)
Project(name, columns) ==
  /\ name \in DOMAIN tables
  /\ Effect(Call("project", NoStatement, name, <<>>, columns, ""),
            Reply(tables, "table", TableProject(tables[name], columns)))

\* db.get_table(name).union(db.get_table(other))
Union(name, other) ==
  /\ {name, other} \subseteq DOMAIN tables
  /\ Effect(Call("union", NoStatement, name, other, <<>>, ""),
            FromTable(tables, TableUnion(tables[name], tables[other])))

\* db.get_table(name).intersection(db.get_table(other))
Intersection(name, other) ==
  /\ {name, other} \subseteq DOMAIN tables
  /\ Effect(Call("intersection", NoStatement, name, other, <<>>, ""),
            FromTable(tables, TableIntersection(tables[name], tables[other])))

\* db.get_table(name).difference(db.get_table(other))
Difference(name, other) ==
  /\ {name, other} \subseteq DOMAIN tables
  /\ Effect(Call("difference", NoStatement, name, other, <<>>, ""),
            FromTable(tables, TableDifference(tables[name], tables[other])))

\* db.get_table(name).cartesian_product(db.get_table(other))
Product(name, other) ==
  /\ {name, other} \subseteq DOMAIN tables
  /\ Effect(Call("cartesian_product", NoStatement, name, other, <<>>, ""),
            Reply(tables, "table", TableProduct(tables[name], tables[other])))

\* db.join(name, other, join_type, join_column)
Join(name, other, join_type, join_column) ==
  Effect(Call("join", NoStatement, name, other, <<join_column>>, join_type),
         DatabaseJoin(tables, name, other, join_type, join_column))

\* db.list_tables()
ListTables ==
  /\ last = Idle
  /\ listed' = list_tables(tables)
  /\ last' = Call("list_tables", NoStatement, <<>>, <<>>, <<>>, "")
  /\ pre' = tables
  /\ outcome' = [status |-> "ok", error |-> "", returns |-> "names"]
  /\ result' = NoTable
  /\ tree' = NoCondition
  /\ UNCHANGED <<tables, issued>>

\* the caller has taken the reply (printed it, or handled the error) and
\* goes on to its next call; the tables are as the call left them
Return ==
  /\ last # Idle
  /\ last' = Idle
  /\ pre' = tables
  /\ outcome' = [status |-> "ok", error |-> "", returns |-> "none"]
  /\ result' = NoTable
  /\ tree' = NoCondition
  /\ listed' = <<>>
  /\ UNCHANGED <<tables, issued>>

Next ==
  \/ Return
  \/ \E stmt \in Statements : Query(stmt)
  \/ \E name \in TableNames : DropTable(name)
  \/ ListTables
  \/ \E name \in TableNames, columns \in ProjectLists : Project(name, columns)
  \/ \E name \in TableNames, other \in TableNames : Union(name, other)
  \/ \E name \in TableNames, other \in TableNames : Intersection(name, other)
  \/ \E name \in TableNames, other \in TableNames : Difference(name, other)
  \/ \E name \in TableNames, other \in TableNames : Product(name, other)
  \/ \E name \in TableNames, other \in TableNames, join_type \in JoinTypes,
        join_column \in JoinColumns : Join(name, other, join_type, join_column)

Spec == Init /\ [][Next]_vars

(***************************************************************************)
(* The evaluator and the WHERE parser on their own: one table t (v) with   *)
(* one stored value, every operator and every kind of literal              *)
(***************************************************************************)
\* the table the comparisons are evaluated against
EvalTable == <<"t">>

\* the value texts of INSERT INTO t VALUES (...): NULL, 9, 10, '9', '10',
\* 'Bob'
StoredTexts ==
  {<<"N", "U", "L", "L">>, <<"9">>, <<"1", "0">>, <<"'", "9", "'">>,
   <<"'", "1", "0", "'">>, <<"'", "B", "o", "b", "'">>}

\* the literal texts of a comparison: NULL, 9, 10, '9', 'Bob', 'C'
LiteralTexts ==
  {<<"N", "U", "L", "L">>, <<"9">>, <<"1", "0">>, <<"'", "9", "'">>,
   <<"'", "B", "o", "b", "'">>, <<"'", "C", "'">>}

\* the seven operators of the WHERE grammar
Operators ==
  {<<"=">>, <<"!", "=">>, <<"<", ">">>, <<"<">>, <<">">>, <<"<", "=">>,
   <<">", "=">>}

\* v is the column of t, w is in no schema
EvalColumns == {<<"v">>, <<"w">>}

\* the comparisons of one column with one literal
Comparisons ==
  {Comparison(col, op, ParseLiteral(lit)) :
     col \in EvalColumns, op \in Operators, lit \in LiteralTexts}

\* comparisons that are true, false and raising for some stored values,
\* from which And, Or and Not nodes are built: v = 9, v < 'C', w = 9
Operands ==
  {Comparison(<<"v">>, <<"=">>, Num(9)),
   Comparison(<<"v">>, <<"<">>, Text(<<"C">>)),
   Comparison(<<"w">>, <<"=">>, Num(9))}

\* the condition trees given to evaluate
Trees ==
  Comparisons
  \cup {And(l, r) : l \in Operands, r \in Operands}
  \cup {Or(l, r) : l \in Operands, r \in Operands}
  \cup {Not(c) : c \in Operands}
  \cup {Not(And(l, r)) : l \in Operands, r \in Operands}

\* the text `col op literal` of a WHERE clause
ComparisonText(col, op, lit) == col \o <<" ">> \o op \o <<" ">> \o lit

\* SELECT * FROM t WHERE col op literal
EvalStatements ==
  {Statement("SELECT", EvalTable, <<"*">>, <<>>, <<>>,
             ComparisonText(col, op, lit)) :
     col \in EvalColumns, op \in Operators, lit \in LiteralTexts}

\* the registry after CREATE TABLE t (v) and INSERT INTO t VALUES (value)
EvalInit ==
  /\ \E value \in StoredTexts :
       tables =
         query(query([n \in {} |-> NoTable],
                     Statement("CREATE", EvalTable, <<"v">>, <<>>, <<>>, <<>>)).tables,
               Statement("INSERT", EvalTable, <<>>, value, <<>>, <<>>)).tables
  /\ pre = tables
  /\ last = Idle
  /\ issued = [n \in {} |-> [width |-> 0, rows |-> <<>>]]
  /\ outcome = [status |-> "ok", error |-> "", returns |-> "none"]
  /\ result = NoTable
  /\ tree = NoCondition
  /\ listed = <<>>

\* condition.evaluate(row, columns) on the first row of t
Evaluate(c) ==
  /\ last = Idle
  /\ EvalTable \in DOMAIN tables
  /\ Len(tables[EvalTable].rows) > 0
  /\ LET v == evaluate(c, tables[EvalTable].rows[1], tables[EvalTable].columns)
     IN  outcome' = IF v \in {"True", "False"}
                    THEN [status |-> "ok", error |-> "", returns |-> v]
                    ELSE [status |-> "error", error |-> v, returns |-> "none"]
  /\ last' = Call("evaluate", NoStatement, EvalTable, <<>>, <<>>, "")
  /\ tree' = c
  /\ listed' = <<>>
  /\ pre' = tables
  /\ result' = NoTable
  /\ UNCHANGED <<tables, issued>>

EvalNext ==
  \/ Return
  \/ \E c \in Trees : Evaluate(c)
  \/ \E stmt \in EvalStatements : Query(stmt)

EvalSpec == EvalInit /\ [][EvalNext]_vars

(***************************************************************************)
(* The relational operations on their own: two tables whose schemas differ *)
(* in length, in names or in order, filled by INSERT, and the operations   *)
(* of Table and the joins applied to them                                  *)
(***************************************************************************)
\* column lists of CREATE TABLE: those of ColumnTexts and
RelColumnTexts ==
  ColumnTexts \cup
  \* name, id
  {<<"n", "a", "m", "e", ",", " ", "i", "d">>,
  \* name
   <<"n", "a", "m", "e">>}

\* value lists of INSERT INTO
RelValueTexts ==
  \* 1, 'Bob'
  {<<"1", ",", " ", "'", "B", "o", "b", "'">>,
  \* 2, NULL
   <<"2", ",", " ", "N", "U", "L", "L">>,
  \* 1
   <<"1">>,
  \* 3
   <<"3">>}

RelStatements ==
  {Statement("CREATE", n, c, <<>>, <<>>, <<>>) :
     n \in TableNames, c \in RelColumnTexts}
  \cup {Statement("INSERT", n, <<>>, v, <<>>, <<>>) :
          n \in TableNames, v \in RelValueTexts}

RelNext ==
  \/ Return
  \/ \E stmt \in RelStatements : Query(stmt)
  \/ \E name \in TableNames, other \in TableNames : Union(name, other)
  \/ \E name \in TableNames, other \in TableNames : Intersection(name, other)
  \/ \E name \in TableNames, other \in TableNames : Difference(name, other)
  \/ \E name \in TableNames, other \in TableNames : Product(name, other)
  \/ \E name \in TableNames, other \in TableNames, join_type \in JoinTypes,
        join_column \in JoinColumns : Join(name, other, join_type, join_column)

RelSpec == Init /\ [][RelNext]_vars

(***************************************************************************)
(* The INSERT parser on its own: a table of one to MaxItems columns and    *)
(* value lists built from quoted and unquoted items                        *)
(***************************************************************************)
\* the items of a value list: 1, NULL, 'a,b', "c, d", 'x"y,z'
ItemTexts ==
  {<<"1">>, <<"N", "U", "L", "L">>, <<"'", "a", ",", "b", "'">>,
   <<"\"", "c", ",", " ", "d", "\"">>,
   <<"'", "x", "\"", "y", ",", "z", "'">>}

\* the lists of one to MaxItems items
ItemLists == UNION {[1..n -> ItemTexts] : n \in 1..MaxItems}

\* the text between two items: a comma, with or without a space
Separators == {<<",">>, <<",", " ">>}

RECURSIVE JoinWith(_, _)
\* the value list of the items, written with sep between them
JoinWith(items, sep) ==
  IF Len(items) = 1 THEN items[1]
  ELSE items[1] \o sep \o JoinWith(Tail(items), sep)

\* the table the value lists are inserted into
InsertTable == <<"t">>

\* column names a, b, c, d
InsertColumns == <<<<"a">>, <<"b">>, <<"c">>, <<"d">>>>

InsertStatements ==
  {Statement("INSERT", InsertTable, <<>>, JoinWith(items, sep), <<>>, <<>>) :
     items \in ItemLists, sep \in Separators}

\* the registry after CREATE TABLE t (a, ...) with one to MaxItems columns
InsertInit ==
  /\ \E n \in 1..MaxItems :
       tables =
         query([m \in {} |-> NoTable],
               Statement("CREATE", InsertTable,
                         JoinWith(SubSeq(InsertColumns, 1, n), <<",", " ">>),
                         <<>>, <<>>, <<>>)).tables
  /\ pre = tables
  /\ last = Idle
  /\ issued = [n \in {} |-> [width |-> 0, rows |-> <<>>]]
  /\ outcome = [status |-> "ok", error |-> "", returns |-> "none"]
  /\ result = NoTable
  /\ tree = NoCondition
  /\ listed = <<>>

\* db.query("INSERT INTO t VALUES (...)") on the table while it is empty
InsertValues(stmt) ==
  /\ InsertTable \in DOMAIN tables
  /\ Len(tables[InsertTable].rows) = 0
  /\ Query(stmt)

InsertNext ==
  \/ Return
  \/ \E stmt \in InsertStatements : InsertValues(stmt)

InsertSpec == InsertInit /\ [][InsertNext]_vars

(***************************************************************************)
(* The WHERE parser on its own: texts of one to MaxTerms comparisons, each *)
(* with or without a NOT prefix, joined by AND and OR in upper and lower   *)
(* case                                                                    *)
(***************************************************************************)
\* the comparisons, by position: A = 1, B = 2, C = 3, D = 4
TermTexts ==
  << <<"A", " ", "=", " ", "1">>, <<"B", " ", "=", " ", "2">>,
     <<"C", " ", "=", " ", "3">>, <<"D", " ", "=", " ", "4">> >>

\* what a comparison is prefixed with: nothing, NOT or not
Prefixes == {<<>>, <<"N", "O", "T", " ">>, <<"n", "o", "t", " ">>}

\* the keywords between two comparisons
Connectives ==
  {<<" ", "A", "N", "D", " ">>, <<" ", "O", "R", " ">>,
   <<" ", "a", "n", "d", " ">>, <<" ", "o", "r", " ">>}

RECURSIVE WhereText(_, _, _)
\* the text of the comparisons from position i on, each with its prefix and
\* with the connectives between them
WhereText(i, prefixes, connectives) ==
  IF i = Len(prefixes) THEN prefixes[i] \o TermTexts[i]
  ELSE prefixes[i] \o TermTexts[i] \o connectives[i]
         \o WhereText(i + 1, prefixes, connectives)

\* the WHERE texts given to the parser
ParserTexts ==
  UNION {{WhereText(1, prefixes, connectives) :
            prefixes \in [1..n -> Prefixes],
            connectives \in [1..(n - 1) -> Connectives]} : n \in 1..MaxTerms}

\* parse_where_clause(text)
ParseWhere(text) ==
  /\ last = Idle
  /\ LET parsed == parse_where_clause(text)
     IN  /\ tree' = IF parsed.ok THEN parsed.cond ELSE NoCondition
         /\ outcome' = IF parsed.ok
                         THEN [status |-> "ok", error |-> "", returns |-> "tree"]
                         ELSE [status |-> "error", error |-> parsed.error,
                               returns |-> "none"]
  /\ last' = Call("parse_where_clause",
                  Statement("", <<>>, <<>>, <<>>, <<>>, text), <<>>, <<>>, <<>>, "")
  /\ pre' = tables
  /\ result' = NoTable
  /\ listed' = <<>>
  /\ UNCHANGED <<tables, issued>>

ParserNext ==
  \/ Return
  \/ \E text \in ParserTexts : ParseWhere(text)

ParserSpec == Init /\ [][ParserNext]_vars

(***************************************************************************)
(* The resolution of the right join column on its own: the left table      *)
(* t (id, k) with the row (1, 2), a right table u of one to MaxColumns     *)
(* columns under the names the resolution looks for, with one row of 1s    *)
(* and 2s, and the four joins on id, on k and on a column t does not have  *)
(***************************************************************************)
\* the names of the right table's columns: id, k, t_k, k_id, t_id,
\* student_id, xid, xk, v
ResolveNames ==
  {<<"i", "d">>,
   <<"k">>,
   <<"t", "_", "k">>,
   <<"k", "_", "i", "d">>,
   <<"t", "_", "i", "d">>,
   <<"s", "t", "u", "d", "e", "n", "t", "_", "i", "d">>,
   <<"x", "i", "d">>,
   <<"x", "k">>,
   <<"v">>}

\* the columns the joins are asked for: id, k, and z, which t does not have
ResolveColumns == {<<"i", "d">>, <<"k">>, <<"z">>}

RECURSIVE Run(_, _)
\* the registry after db.query of each statement in turn
Run(tabs, stmts) ==
  IF Len(stmts) = 0 THEN tabs
  ELSE Run(query(tabs, stmts[1]).tables, Tail(stmts))

\* the registry after CREATE TABLE t (id, k), CREATE TABLE u (...),
\* INSERT INTO t VALUES (1, 2) and INSERT INTO u VALUES (...)
ResolveInit ==
  /\ \E n \in 1..MaxColumns :
       \E columns \in [1..n -> ResolveNames], values \in [1..n -> {<<"1">>, <<"2">>}] :
         tables =
           Run([m \in {} |-> NoTable],
               <<Statement("CREATE", <<"t">>, <<"i", "d", ",", " ", "k">>,
                           <<>>, <<>>, <<>>),
                 Statement("CREATE", <<"u">>, JoinWith(columns, <<",", " ">>),
                           <<>>, <<>>, <<>>),
                 Statement("INSERT", <<"t">>, <<>>, <<"1", ",", " ", "2">>,
                           <<>>, <<>>),
                 Statement("INSERT", <<"u">>, <<>>, JoinWith(values, <<",", " ">>),
                           <<>>, <<>>)>>)
  /\ pre = tables
  /\ last = Idle
  /\ issued = [n \in {} |-> [width |-> 0, rows |-> <<>>]]
  /\ outcome = [status |-> "ok", error |-> "", returns |-> "none"]
  /\ result = NoTable
  /\ tree = NoCondition
  /\ listed = <<>>

ResolveNext ==
  \/ Return
  \/ \E join_type \in JoinTypes, join_column \in ResolveColumns :
       Join(<<"t">>, <<"u">>, join_type, join_column)

ResolveSpec == ResolveInit /\ [][ResolveNext]_vars


(***************************************************************************)
(* Properties                                                              *)
(***************************************************************************)
\* the call just made was db.query of a statement of this kind
Queried(kind) == last.op = "query" /\ last.stmt.kind = kind

\* the rows of table n all have as many values as n has columns
RowsFit(t) == \A i \in 1..Len(t.rows) : Len(t.rows[i]) = Len(t.columns)

\* C1: whatever CREATE TABLE, INSERT and SELECT statements were executed,
\* successfully or not, and whatever tables were dropped in between, every
\* row of every registered table has exactly as many values as the table
\* has columns
C1_RowLengthIsSchemaLength == \A n \in DOMAIN tables : RowsFit(tables[n])

\* an INSERT has just been refused for its value count, a table holds as many
\* rows as the bound allows, and a table has been dropped before
C1_Witness ==
  /\ Queried("INSERT")
  /\ outcome.error = "ArityMismatch"
  /\ \E n \in DOMAIN tables : Len(tables[n].rows) = MaxRows
  /\ DOMAIN tables # TableNames

\* the number of values an INSERT statement gives
ValueCount(stmt) == Len(parse_insert(stmt.values))

\* C2: an INSERT whose value count differs from the column count of its
\* table fails (ArityMismatch), an INSERT into a table that does not exist
\* fails (TableNotFound), and either way the registry and every table's rows
\* are what they were before the statement
C2_FailedInsertChangesNothing ==
  Queried("INSERT") =>
    LET t == last.stmt.table
    IN  /\ t \notin DOMAIN pre =>
              outcome.status = "error" /\ outcome.error = "TableNotFound"
                /\ tables = pre
        /\ (t \in DOMAIN pre /\ ValueCount(last.stmt) # Len(pre[t].columns)) =>
              outcome.status = "error" /\ outcome.error = "ArityMismatch"
                /\ tables = pre

\* three values have just been offered to a two-column table that holds rows
C2_Witness ==
  /\ Queried("INSERT")
  /\ last.stmt.table \in DOMAIN pre
  /\ ValueCount(last.stmt) = 3
  /\ Len(pre[last.stmt.table].columns) = 2
  /\ Len(pre[last.stmt.table].rows) > 0
  /\ outcome.status = "error"

\* C3: CREATE TABLE of a name that is already registered fails with
\* TableAlreadyExists, and the registered table keeps its schema and its rows
C3_CreateExistingFails ==
  (Queried("CREATE") /\ last.stmt.table \in DOMAIN pre) =>
    /\ outcome.status = "error"
    /\ outcome.error = "TableAlreadyExists"
    /\ tables = pre

\* a table holding rows has just been re-created with another column list
C3_Witness ==
  /\ Queried("CREATE")
  /\ last.stmt.table \in DOMAIN pre
  /\ Len(pre[last.stmt.table].rows) > 0
  /\ parse_create_table(last.stmt.columns) # pre[last.stmt.table].columns
  /\ outcome.status = "error"

\* C4: after CREATE TABLE t with n columns, every INSERT of n values into t
\* succeeds, the first (into the empty table) included, and SELECT * FROM t
\* returns exactly the rows of those INSERTs, in the order they were issued
C4_InsertedRowsAreSelected ==
  /\ (Queried("INSERT") /\ last.stmt.table \in DOMAIN issued
         /\ ValueCount(last.stmt) = issued[last.stmt.table].width) =>
        outcome.status = "ok"
  /\ (Queried("SELECT") /\ last.stmt.table \in DOMAIN issued
         /\ Strip(last.stmt.columns) = <<"*">> /\ last.stmt.where = <<>>) =>
        /\ outcome.status = "ok"
        /\ result.rows = issued[last.stmt.table].rows
        /\ Len(result.columns) = issued[last.stmt.table].width

\* SELECT * has just returned two different rows inserted in that order
C4_Witness ==
  /\ Queried("SELECT")
  /\ Strip(last.stmt.columns) = <<"*">>
  /\ last.stmt.where = <<>>
  /\ last.stmt.table \in DOMAIN issued
  /\ Len(issued[last.stmt.table].rows) = 2
  /\ issued[last.stmt.table].rows[1] # issued[last.stmt.table].rows[2]
  /\ Len(result.rows) = 2

\* the call just made was a SELECT or a relational operation
ReadOnlyCall ==
  \/ Queried("SELECT")
  \/ last.op \in {"project", "union", "intersection", "difference",
                   "cartesian_product", "join"}

\* C5: a SELECT, a projection, a union, intersection, difference or product
\* and each of the four joins leave the registry and the schema, rows and
\* row order of every registered table as they were: the table they return
\* is not entered in the registry
C5_ReadsChangeNothing == ReadOnlyCall => tables = pre

\* a SELECT of one column has just returned some but not all rows of a table
C5_Witness ==
  /\ Queried("SELECT")
  /\ outcome.status = "ok"
  /\ Len(result.columns) = 1
  /\ Len(result.rows) = 1
  /\ Len(pre[last.stmt.table].columns) = 2
  /\ Len(pre[last.stmt.table].rows) = 2

\* a join has just returned rows built from two registered tables
C5_JoinWitness ==
  /\ last.op = "join"
  /\ outcome.status = "ok"
  /\ last.name # last.other
  /\ Len(result.rows) > 1

\* the condition tree of a statement's WHERE text (NoCondition without WHERE)
WhereOf(stmt) ==
  IF Len(stmt.where) > 0 THEN parse_where_clause(stmt.where).cond
  ELSE NoCondition

\* the condition is absent or true of the row
Holds(c, row, columns) ==
  IF c = NoCondition THEN TRUE ELSE evaluate(c, row, columns) = "True"

\* the row with the SET list's values in the columns the list names
Assigned(row, columns, set_list) ==
  [j \in 1..Len(row) |->
     IF \E a \in 1..Len(set_list) : set_list[a].col = columns[j]
     THEN set_list[CHOOSE a \in 1..Len(set_list) :
                     /\ set_list[a].col = columns[j]
                     /\ \A b \in (a + 1)..Len(set_list) :
                          set_list[b].col # columns[j]].val
     ELSE row[j]]

\* C6: UPDATE t SET c = v [WHERE cond] on an existing table succeeds and
\* puts v in column c of exactly the rows for which cond holds (of all rows
\* without WHERE); the other rows and columns, the row count, the row
\* order and every other table stay as they were
C6_UpdateReplacesValues ==
  (Queried("UPDATE") /\ last.stmt.table \in DOMAIN pre) =>
    LET t == pre[last.stmt.table]
        c == WhereOf(last.stmt)
    IN  /\ outcome.status = "ok"
        /\ tables =
             [pre EXCEPT ![last.stmt.table].rows =
                [i \in 1..Len(t.rows) |->
                   IF Holds(c, t.rows[i], t.columns)
                   THEN Assigned(t.rows[i], t.columns,
                                 ParseSetClause(last.stmt.set))
                   ELSE t.rows[i]]]

\* C7: DELETE FROM t [WHERE cond] on an existing table succeeds and removes
\* exactly the rows for which cond holds (all rows without WHERE); the
\* remaining rows keep their values and their order, and no other table
\* changes
C7_DeleteRemovesRows ==
  (Queried("DELETE") /\ last.stmt.table \in DOMAIN pre) =>
    LET t == pre[last.stmt.table]
        c == WhereOf(last.stmt)
    IN  /\ outcome.status = "ok"
        /\ tables =
             [pre EXCEPT ![last.stmt.table].rows =
                SelectSeq(t.rows, LAMBDA row : ~Holds(c, row, t.columns))]

\* C8: when select returns (SELECT * with or without WHERE), the table it
\* returns has the schema of the source and holds exactly the source rows for
\* which the predicate is absent or true, each as often as the source holds
\* it and in the order of the source; for P AND Q these are the rows for
\* which P is true and Q is true
C8_SelectKeepsTrueRows ==
  (Queried("SELECT") /\ outcome.status = "ok"
     /\ ParseSelectColumns(last.stmt.columns) = <<>>) =>
    LET t == pre[last.stmt.table]
        c == WhereOf(last.stmt)
    IN  /\ result.columns = t.columns
        /\ result.rows =
             SelectSeq(t.rows, LAMBDA row : Holds(c, row, t.columns))
        /\ c.k = "And" =>
             result.rows =
               SelectSeq(t.rows, LAMBDA row :
                           /\ evaluate(c.left, row, t.columns) = "True"
                           /\ evaluate(c.right, row, t.columns) = "True")

\* SELECT * WHERE P AND Q has just kept the second of two rows that both
\* satisfy P
C8_Witness ==
  /\ Queried("SELECT")
  /\ outcome.status = "ok"
  /\ ParseSelectColumns(last.stmt.columns) = <<>>
  /\ WhereOf(last.stmt).k = "And"
  /\ Len(pre[last.stmt.table].rows) = 2
  /\ \A i \in 1..2 :
       evaluate(WhereOf(last.stmt).left, pre[last.stmt.table].rows[i],
                pre[last.stmt.table].columns) = "True"
  /\ result.rows = <<pre[last.stmt.table].rows[2]>>

\* SELECT * WHERE has just returned two equal rows of a table that holds the
\* same row twice
C8_DuplicateWitness ==
  /\ Queried("SELECT")
  /\ outcome.status = "ok"
  /\ WhereOf(last.stmt) # NoCondition
  /\ Len(result.rows) = 2
  /\ result.rows[1] = result.rows[2]

\* C9: SELECT c1, ..., cn FROM t WHERE cond evaluates cond on the full
\* schema of t before projecting: the rows of the result are, in order, the
\* rows SELECT * would keep, each reduced to its values in the requested
\* columns of t
C9_WhereBeforeProjection ==
  (Queried("SELECT") /\ outcome.status = "ok"
     /\ ParseSelectColumns(last.stmt.columns) # <<>>) =>
    LET t == pre[last.stmt.table]
        c == WhereOf(last.stmt)
        kept == SelectSeq(t.rows, LAMBDA row : Holds(c, row, t.columns))
        present == SelectSeq(ParseSelectColumns(last.stmt.columns),
                             LAMBDA col : InSeq(t.columns, col))
    IN  /\ Len(result.rows) = Len(kept)
        /\ \A i \in 1..Len(kept) :
             result.rows[i] =
               [j \in 1..Len(present) |-> kept[i][IndexOf(t.columns, present[j])]]

\* SELECT name WHERE id > 1 has just kept one of two rows by a column that
\* is not in the select list
C9_Witness ==
  /\ Queried("SELECT")
  /\ outcome.status = "ok"
  /\ ParseSelectColumns(last.stmt.columns) = <<<<"n", "a", "m", "e">>>>
  /\ WhereOf(last.stmt) # NoCondition
  /\ WhereOf(last.stmt).k = "Comparison"
  /\ WhereOf(last.stmt).column = <<"i", "d">>
  /\ Len(pre[last.stmt.table].rows) = 2
  /\ Len(result.rows) = 1
  /\ Len(result.rows[1]) = 1

\* C10: project with names that are not in the source schema returns a
\* table whose schema is the requested names that exist in the source, in
\* the requested order, and whose rows hold one value per column of that
\* schema: the source row's value for the column
C10_ProjectDropsUnknownNames ==
  last.op = "project" =>
    LET t == pre[last.name]
        present == SelectSeq(last.columns, LAMBDA col : InSeq(t.columns, col))
    IN  /\ outcome.status = "ok"
        /\ result.columns = present
        /\ RowsFit(result)
        /\ Len(result.rows) = Len(t.rows)
        /\ \A i \in 1..Len(t.rows) :
             result.rows[i] =
               [j \in 1..Len(present) |-> t.rows[i][IndexOf(t.columns, present[j])]]

RECURSIVE Referenced(_)
\* the columns a condition tree refers to
Referenced(c) ==
  CASE c.k = "Comparison" -> {c.column}
    [] c.k \in {"And", "Or"} -> Referenced(c.left) \cup Referenced(c.right)
    [] c.k = "Not" -> Referenced(c.condition)
    [] OTHER -> {}

\* the columns of a table as a set
ColumnSet(t) == {t.columns[i] : i \in 1..Len(t.columns)}

\* evaluate has just been called on the first row of t
Evaluated == last.op = "evaluate"

\* C11: evaluating a condition tree (Comparison, And, Or, Not; any operator,
\* any stored scalar, any literal) against a row whose schema holds every
\* column the tree refers to returns a boolean and raises nothing
C11_EvaluationIsTotal ==
  (Evaluated /\ Referenced(tree) \subseteq ColumnSet(pre[EvalTable])) =>
    /\ outcome.status = "ok"
    /\ outcome.returns \in {"True", "False"}

\* the statement just queried has a WHERE text that parses to a comparison
WhereIsComparison ==
  /\ last.op = "query"
  /\ Len(last.stmt.where) > 0
  /\ parse_where_clause(last.stmt.where).ok
  /\ WhereOf(last.stmt).k = "Comparison"

\* C12: a comparison on a column that is not in the schema evaluates to
\* false, for every operator and every stored value, and raises nothing; a
\* SELECT whose WHERE is such a comparison succeeds and returns no row
C12_MissingColumnIsFalse ==
  /\ (Evaluated /\ tree.k = "Comparison"
        /\ tree.column \notin ColumnSet(pre[EvalTable])) =>
       outcome.status = "ok" /\ outcome.returns = "False"
  /\ (Queried("SELECT") /\ WhereIsComparison
        /\ last.stmt.table \in DOMAIN pre
        /\ WhereOf(last.stmt).column \notin ColumnSet(pre[last.stmt.table])) =>
       outcome.status = "ok" /\ result.rows = <<>>

\* SELECT * FROM t WHERE w < 'C' has just returned no row of a table that
\* holds a row with NULL, where the same comparison on v raises
C12_Witness ==
  /\ Queried("SELECT")
  /\ last.stmt.where = ComparisonText(<<"w">>, <<"<">>, <<"'", "C", "'">>)
  /\ pre[last.stmt.table].rows = << <<Null>> >>
  /\ outcome.status = "ok"
  /\ result.rows = <<>>

\* evaluate has just returned False for a comparison on w with >=
C12_EvaluateWitness ==
  /\ Evaluated
  /\ tree.k = "Comparison"
  /\ tree.column = <<"w">>
  /\ tree.operator = <<">", "=">>
  /\ outcome.returns = "False"

\* a stands in the relation op to b: numerically when both are numbers,
\* else on the values as they are; <> is !=
StandsIn(op, a, b) ==
  LET operator == IF op = <<"<", ">">> THEN <<"!", "=">> ELSE op
  IN  IF FloatOk(a) /\ FloatOk(b)
      THEN NumericCompare(operator, FloatOf(a), FloatOf(b))
      ELSE FallbackCompare(operator, a, b) = "True"

\* C13: for WHERE col op literal with op one of =, !=, <>, <, >, <=, >=,
\* the parser yields the comparison of col with the literal by op, and the
\* rows selected are those whose value of col stands in the relation op to
\* the literal, <> meaning not equal
C13_SevenOperators ==
  \A col \in EvalColumns, op \in Operators, lit \in LiteralTexts :
    (Queried("SELECT") /\ last.stmt.table \in DOMAIN pre
       /\ last.stmt.where = ComparisonText(col, op, lit)) =>
      LET t == pre[last.stmt.table]
      IN  /\ WhereOf(last.stmt) = Comparison(col, op, ParseLiteral(lit))
          /\ outcome.status = "ok" =>
               result.rows =
                 SelectSeq(t.rows, LAMBDA row :
                   /\ InSeq(t.columns, col)
                   /\ StandsIn(op, row[IndexOf(t.columns, col)],
                               ParseLiteral(lit)))

\* the four ordering operators
OrderOperators == {<<"<">>, <<">">>, <<"<", "=">>, <<">", "=">>}

\* C14: a comparison on a column of the schema is evaluated numerically,
\* for each of the six operators, when the stored value and the literal are
\* both numbers (stored text "10" < literal "9" is false), and otherwise as
\* text: it returns a boolean, which for two texts is the lexicographic
\* order for <, >, <=, >= and equality of the values for = and !=
C14_NumericElseText ==
  (Evaluated /\ tree.k = "Comparison"
     /\ tree.operator \in OrderOperators \cup {<<"=">>, <<"!", "=">>}
     /\ tree.column \in ColumnSet(pre[EvalTable])) =>
    LET a == pre[EvalTable].rows[1][IndexOf(pre[EvalTable].columns, tree.column)]
        b == tree.value
        truth(x) == IF x THEN "True" ELSE "False"
    IN  /\ outcome.status = "ok"
        /\ (FloatOk(a) /\ FloatOk(b)) =>
             outcome.returns =
               truth(NumericCompare(tree.operator, FloatOf(a), FloatOf(b)))
        /\ (a.t = "text" /\ b.t = "text" /\ ~(FloatOk(a) /\ FloatOk(b))) =>
             outcome.returns =
               truth(CASE tree.operator = <<"=">> -> a.s = b.s
                       [] tree.operator = <<"!", "=">> -> a.s # b.s
                       [] tree.operator = <<"<">> -> StrLess(a.s, b.s)
                       [] tree.operator = <<">">> -> StrLess(b.s, a.s)
                       [] tree.operator = <<"<", "=">> -> ~StrLess(b.s, a.s)
                       [] OTHER -> ~StrLess(a.s, b.s))

\* the operands of the binary operation just called
Left == pre[last.name]

Right == pre[last.other]

\* the rows of a sequence that are not in a set, each once, in the order of
\* their first occurrence
NovelRows(rows, known) ==
  LET firsts == SelectSeq([i \in 1..Len(rows) |-> i], LAMBDA i :
                  /\ rows[i] \notin known
                  /\ \A j \in 1..(i - 1) : rows[j] # rows[i])
  IN  [k \in 1..Len(firsts) |-> rows[firsts[k]]]

\* C15: for tables A and B of the same schema, each possibly holding a row
\* more than once, A.union(B) has |A.rows| + |set(B.rows) - set(A.rows)|
\* rows: the rows of A in their order, then each row of B that is not yet
\* present, in B's order
C15_UnionCount ==
  (last.op = "union" /\ Left.columns = Right.columns) =>
    /\ outcome.status = "ok"
    /\ Len(result.rows) =
         Len(Left.rows) + Cardinality(RowSet(Right.rows) \ RowSet(Left.rows))
    /\ result.rows = Left.rows \o NovelRows(Right.rows, RowSet(Left.rows))

\* C16: for tables A and B of the same schema, A.intersection(B) holds the
\* rows of A that occur in B and A.difference(B) those that do not, each in
\* A's order; so A.intersection(B) and B.intersection(A) hold the same set of
\* rows and A.difference(B) and B.difference(A) share no row
C16_IntersectionAndDifference ==
  /\ (last.op = "intersection" /\ Left.columns = Right.columns) =>
       /\ outcome.status = "ok"
       /\ result.columns = Left.columns
       /\ result.rows =
            SelectSeq(Left.rows, LAMBDA row : row \in RowSet(Right.rows))
       /\ RowSet(result.rows) = RowSet(TableIntersection(Right, Left).table.rows)
  /\ (last.op = "difference" /\ Left.columns = Right.columns) =>
       /\ outcome.status = "ok"
       /\ result.columns = Left.columns
       /\ result.rows =
            SelectSeq(Left.rows, LAMBDA row : row \notin RowSet(Right.rows))
       /\ RowSet(result.rows) \cap RowSet(TableDifference(Right, Left).table.rows)
            = {}

\* A.intersection(B) has just returned both copies of a row that A holds
\* twice and B once, B holding another row besides
C16_Witness ==
  /\ last.op = "intersection"
  /\ outcome.status = "ok"
  /\ last.name # last.other
  /\ Len(result.rows) = 2
  /\ result.rows[1] = result.rows[2]
  /\ Len(Right.rows) = 2
  /\ Right.rows[1] # Right.rows[2]

\* A.difference(B) has just kept the second of A's two rows
C16_DifferenceWitness ==
  /\ last.op = "difference"
  /\ outcome.status = "ok"
  /\ Len(Left.rows) = 2
  /\ Len(Right.rows) > 0
  /\ result.rows = <<Left.rows[2]>>

\* C17: union, intersection and difference fail with a schema mismatch when
\* the column sequences of the two tables differ (in a name, in length or in
\* order), return no table and leave both operands as they were;
\* cartesian_product does not fail
C17_SchemaMismatch ==
  /\ (last.op \in {"union", "intersection", "difference"}
        /\ Left.columns # Right.columns) =>
       /\ outcome.status = "error"
       /\ outcome.error = "SchemaMismatch"
       /\ result = NoTable
       /\ tables = pre
  /\ last.op = "cartesian_product" => outcome.status = "ok"

\* union has just failed on two tables that hold rows and have the same
\* column names in a different order
C17_Witness ==
  /\ last.op = "union"
  /\ ColumnSet(Left) = ColumnSet(Right)
  /\ Left.columns # Right.columns
  /\ Len(Left.rows) > 0
  /\ Len(Right.rows) > 0
  /\ outcome.status = "error"

\* difference has just failed on two tables with one column each, of
\* different names
C17_NameWitness ==
  /\ last.op = "difference"
  /\ Len(Left.columns) = 1
  /\ Len(Right.columns) = 1
  /\ Left.columns # Right.columns
  /\ outcome.status = "error"

\* C18: A.cartesian_product(B) has |A.rows| * |B.rows| rows and
\* |A.schema| + |B.schema| columns; row (i, j) is A's row i followed by B's
\* row j, all pairings of A's first row coming first and in B's order; a
\* column of B whose name is also a column of A is named Bname.column
C18_CartesianProduct ==
  last.op = "cartesian_product" =>
    LET a == Left
        b == Right
    IN  /\ Len(result.rows) = Len(a.rows) * Len(b.rows)
        /\ Len(result.columns) = Len(a.columns) + Len(b.columns)
        /\ \A i \in 1..Len(a.rows), j \in 1..Len(b.rows) :
             result.rows[(i - 1) * Len(b.rows) + j] = a.rows[i] \o b.rows[j]
        /\ SubSeq(result.columns, 1, Len(a.columns)) = a.columns
        /\ \A j \in 1..Len(b.columns) :
             result.columns[Len(a.columns) + j] =
               IF b.columns[j] \in ColumnSet(a)
               THEN b.name \o <<".">> \o b.columns[j]
               ELSE b.columns[j]

\* the product of two tables of two different rows each has just been
\* returned, one column of B renamed and one not
C18_Witness ==
  /\ last.op = "cartesian_product"
  /\ last.name # last.other
  /\ Len(Left.rows) = 2
  /\ Left.rows[1] # Left.rows[2]
  /\ Len(Right.rows) = 2
  /\ Right.rows[1] # Right.rows[2]
  /\ Len(result.rows) = 4
  /\ \E j \in 1..Len(Right.columns) : Right.columns[j] \in ColumnSet(Left)
  /\ \E j \in 1..Len(Right.columns) : Right.columns[j] \notin ColumnSet(Left)

\* db.join of this type has just returned a table
Joins(join_type) ==
  last.op = "join" /\ last.join_type = join_type /\ outcome.status = "ok"

\* the column the join was asked for, and its position in the left table
JoinColumn == last.columns[1]

LeftKeyIndex == IndexOf(Left.columns, JoinColumn)

\* the position in the right table of the column the key is compared with
RightKeyIndex ==
  IndexOf(Right.columns, FindJoinColumn(Left, Right, JoinColumn).column)

\* the right rows that share the key of a left row, in right-table order
Matches(left_row) ==
  SelectSeq(Right.rows, LAMBDA right_row :
              right_row[RightKeyIndex] = left_row[LeftKeyIndex])

\* C19: left_join emits, for each left row in left-table order, one row per
\* right row that shares its key (the left values, then the right values
\* but the key, in right-table order), and for a left row without a match
\* one row of the left values followed by Null in every right-origin
\* column; so the result has at least |left.rows| rows
C19_LeftJoin ==
  Joins("left") =>
    LET right_origin == Len(result.columns) - Len(Left.columns)
        emitted(left_row) ==
          IF Len(Matches(left_row)) > 0
          THEN [j \in 1..Len(Matches(left_row)) |->
                  left_row \o WithoutIndex(Matches(left_row)[j], RightKeyIndex)]
          ELSE <<left_row \o [n \in 1..right_origin |-> Null]>>
    IN  /\ right_origin = Len(Right.columns) - 1
        /\ result.rows =
             Flatten([i \in 1..Len(Left.rows) |-> emitted(Left.rows[i])])
        /\ Len(result.rows) >= Len(Left.rows)
        /\ RowsFit(result)

\* a left join has just returned three rows for two left rows: two for the
\* first, whose key two right rows share, and one ending in Null for the
\* second, whose key no right row holds
C19_Witness ==
  /\ Joins("left")
  /\ last.name # last.other
  /\ Len(Left.rows) = 2
  /\ Len(Matches(Left.rows[1])) = 2
  /\ Len(Matches(Left.rows[2])) = 0
  /\ Len(result.columns) > Len(Left.columns)
  /\ Len(result.rows) = 3
  /\ result.rows[3][Len(result.columns)] = Null

\* C20: whenever the joins of A and B on a column succeed, the rows of
\* inner_join(A, B, col) are rows of left_join(A, B, col), as often and in
\* the same relative order, and the two results have the same schema
C20_InnerWithinLeft ==
  Joins("left") =>
    LET inner == inner_join(Left, Right, JoinColumn, NoColumn)
    IN  /\ inner.ok
        /\ inner.table.columns = result.columns
        /\ RowSet(inner.table.rows) \subseteq RowSet(result.rows)
        /\ inner.table.rows =
             SelectSeq(result.rows, LAMBDA row : row \in RowSet(inner.table.rows))

\* a left join has just returned a row without a match after two equal rows
\* that the inner join returns as well
C20_Witness ==
  /\ Joins("left")
  /\ Len(inner_join(Left, Right, JoinColumn, NoColumn).table.rows) = 2
  /\ Len(result.rows) = 3
  /\ result.rows[1] = result.rows[2]
  /\ result.rows[3] \notin
       RowSet(inner_join(Left, Right, JoinColumn, NoColumn).table.rows)

\* the right rows whose key no left row holds, in right-table order
UnmatchedRight ==
  SelectSeq(Right.rows, LAMBDA right_row :
    \A i \in 1..Len(Left.rows) :
      Left.rows[i][LeftKeyIndex] # right_row[RightKeyIndex])

\* the number of rows a left join emits: per left row one for each match,
\* or one when there is none
LeftJoinLength ==
  Len(Flatten([i \in 1..Len(Left.rows) |->
                 IF Len(Matches(Left.rows[i])) > 0 THEN Matches(Left.rows[i])
                 ELSE <<Left.rows[i]>>]))

\* C21: whenever full_join(A, B, col) succeeds it has at least
\* max(|A.rows|, |B.rows|) rows: every left row begins some result row,
\* every right row (without its key) ends some result row, and each right
\* row whose key no left row holds adds exactly one row to the left join
C21_FullJoinCount ==
  Joins("full") =>
    /\ Len(result.rows) >= Len(Left.rows)
    /\ Len(result.rows) >= Len(Right.rows)
    /\ \A i \in 1..Len(Left.rows) : \E k \in 1..Len(result.rows) :
         SubSeq(result.rows[k], 1, Len(Left.columns)) = Left.rows[i]
    /\ \A j \in 1..Len(Right.rows) : \E k \in 1..Len(result.rows) :
         SubSeq(result.rows[k], Len(Left.columns) + 1, Len(result.rows[k]))
           = WithoutIndex(Right.rows[j], RightKeyIndex)
    /\ Len(result.rows) = LeftJoinLength + Len(UnmatchedRight)

\* a full join has just returned three rows for two left and two right
\* rows: one key is shared, one is only on the left, one only on the right
C21_Witness ==
  /\ Joins("full")
  /\ last.name # last.other
  /\ Len(Left.rows) = 2
  /\ Len(Right.rows) = 2
  /\ Len(Right.columns) = 2
  /\ Len(UnmatchedRight) = 1
  /\ \E i \in 1..2 : Len(Matches(Left.rows[i])) = 0
  /\ \E i \in 1..2 : Len(Matches(Left.rows[i])) = 1
  /\ Len(result.rows) = 3

ItemValue(item) ==
  IF item[1] \in {"'", "\""} /\ item[Len(item)] = item[1]
  THEN Text(SubSeq(item, 2, Len(item) - 1))
  ELSE ParseLiteral(item)

\* C22: when the value list of an INSERT is split, a comma inside a single-
\* or double-quoted substring is no separator: there are as many values as
\* items, a quoted item keeps its inner commas and loses only its enclosing
\* quotes, and a list of as many items as the table has columns is stored
\* as that row
C22_QuotedCommas ==
  \A items \in ItemLists, sep \in Separators :
    (Queried("INSERT") /\ last.stmt.values = JoinWith(items, sep)) =>
      LET values == parse_insert(last.stmt.values)
      IN  /\ Len(values) = Len(items)
          /\ \A i \in 1..Len(items) : values[i] = ItemValue(items[i])
          /\ Len(items) = Len(pre[InsertTable].columns) =>
               /\ outcome.status = "ok"
               /\ tables[InsertTable].rows =
                    <<[i \in 1..Len(items) |-> ItemValue(items[i])]>>

\* INSERT INTO t VALUES ('a,b',"c, d") has just stored a row of the two
\* texts a,b and c, d
C22_Witness ==
  /\ Queried("INSERT")
  /\ last.stmt.values =
       <<"'", "a", ",", "b", "'", ",", "\"", "c", ",", " ", "d", "\"">>
  /\ outcome.status = "ok"
  /\ tables[InsertTable].rows =
       << <<Text(<<"a", ",", "b">>), Text(<<"c", ",", " ", "d">>)>> >>

\* parse_where_clause has just been called on a WHERE text
ParsedWhere == last.op = "parse_where_clause"

RECURSIVE SplitByKeywords(_)
\* the tree of a text split without precedence: at the first ' AND ' when
\* there is one, else at the first ' OR ', else a NOT prefix, else the
\* comparison
SplitByKeywords(text) ==
  IF Contains(text, <<" ", "A", "N", "D", " ">>)
  THEN And(SplitByKeywords(SplitFirst(text, <<" ", "A", "N", "D", " ">>)[1]),
           SplitByKeywords(SplitFirst(text, <<" ", "A", "N", "D", " ">>)[2]))
  ELSE IF Contains(text, <<" ", "O", "R", " ">>)
  THEN Or(SplitByKeywords(SplitFirst(text, <<" ", "O", "R", " ">>)[1]),
          SplitByKeywords(SplitFirst(text, <<" ", "O", "R", " ">>)[2]))
  ELSE IF StartsWith(text, <<"N", "O", "T", " ">>)
  THEN Not(SplitByKeywords(SubSeq(text, 5, Len(text))))
  ELSE Comparison(<<text[1]>>, <<"=">>, Num(IntOf(<<text[Len(text)]>>)))

\* the comparisons A = 1, B = 2, C = 3 as trees
TermA == Comparison(<<"A">>, <<"=">>, Num(1))

TermB == Comparison(<<"B">>, <<"=">>, Num(2))

TermC == Comparison(<<"C">>, <<"=">>, Num(3))

\* C24: a WHERE text with upper-case keywords is split without precedence:
\* at the first ' AND ' if it holds one, at the first ' OR ' only if it
\* holds no ' AND ', and NOT is a prefix of a text that holds neither; so
\* A OR B AND C is And(Or(A, B), C) and A AND B OR C is And(A, Or(B, C))
C24_NoPrecedence ==
  (ParsedWhere /\ Upper(last.stmt.where) = last.stmt.where) =>
    /\ outcome.status = "ok"
    /\ tree = SplitByKeywords(last.stmt.where)
    /\ last.stmt.where =
         WhereText(1, <<<<>>, <<>>, <<>>>>,
                   <<<<" ", "O", "R", " ">>, <<" ", "A", "N", "D", " ">>>>)
         => tree = And(Or(TermA, TermB), TermC)
    /\ last.stmt.where =
         WhereText(1, <<<<>>, <<>>, <<>>>>,
                   <<<<" ", "A", "N", "D", " ">>, <<" ", "O", "R", " ">>>>)
         => tree = And(TermA, Or(TermB, TermC))

\* A = 1 OR B = 2 AND C = 3 has just been parsed
C24_Witness ==
  /\ ParsedWhere
  /\ last.stmt.where =
       WhereText(1, <<<<>>, <<>>, <<>>>>,
                 <<<<" ", "O", "R", " ">>, <<" ", "A", "N", "D", " ">>>>)
  /\ tree = And(Or(TermA, TermB), TermC)

\* NOT A = 1 OR NOT B = 2 has just been parsed to Or(Not(A), Not(B))
C24_NotWitness ==
  /\ ParsedWhere
  /\ last.stmt.where =
       WhereText(1, <<<<"N", "O", "T", " ">>, <<"N", "O", "T", " ">>>>,
                 <<<<" ", "O", "R", " ">>>>)
  /\ tree = Or(Not(TermA), Not(TermB))

\* C25: the keywords of a WHERE clause are case-insensitive: a clause with
\* ' and ', ' or ' or 'not ' in lower case parses without error to the tree
\* of the same clause with the keywords in upper case (the column names of
\* the texts are upper-case, so upper-casing a text changes its keywords
\* only)
C25_KeywordCase ==
  ParsedWhere =>
    /\ outcome.status = "ok"
    /\ tree = parse_where_clause(Upper(last.stmt.where)).cond

\* a join of two registered tables has just been called
JoinCalled ==
  last.op = "join" /\ {last.name, last.other} \subseteq DOMAIN pre

RECURSIVE FirstIn(_, _)
\* the first of the candidate names that is a column, or NoColumn
FirstIn(candidates, columns) ==
  IF Len(candidates) = 0 THEN NoColumn
  ELSE IF InSeq(columns, candidates[1]) THEN candidates[1]
  ELSE FirstIn(Tail(candidates), columns)

\* the right join column by the order (a) to (f), or NoColumn
Resolved ==
  LET named ==
        FirstIn(<<JoinColumn,
                  Left.name \o <<"_">> \o JoinColumn,
                  JoinColumn \o <<"_", "i", "d">>,
                  Left.name \o <<"_", "i", "d">>>>
                \o (IF JoinColumn = <<"i", "d">>
                    THEN <<<<"s", "t", "u", "d", "e", "n", "t", "_", "i", "d">>>>
                    ELSE <<>>),
                Right.columns)
      ending == SelectSeq(Right.columns, LAMBDA col : EndsWith(col, JoinColumn))
  IN  IF named # NoColumn THEN named
      ELSE IF Len(ending) > 0 THEN ending[1]
      ELSE NoColumn

\* the first left row and the first right row hold the same value in the
\* join column and in the resolved right join column
KeysMatch ==
  Left.rows[1][IndexOf(Left.columns, JoinColumn)]
    = Right.rows[1][IndexOf(Right.columns, Resolved)]

C26_FailureWitness ==
  /\ JoinCalled
  /\ JoinColumn = <<"k">>
  /\ Right.columns = <<<<"x", "i", "d">>, <<"v">>>>
  /\ outcome.error = "JoinColumnNotFound"

\* the table whose columns a join's result lists first, the table whose
\* columns follow, and the join column of the latter: the left table, the
\* right table and the resolved right join column, but for the right join,
\* which swaps the operands
Leading == IF last.join_type = "right" THEN Right ELSE Left

Following == IF last.join_type = "right" THEN Left ELSE Right

FollowingKey == IF last.join_type = "right" THEN JoinColumn ELSE Resolved

\* the schema of a join's result: the leading schema, then the following
\* schema without the join column, a name the leading schema holds being
\* qualified with the following table's name
JoinSchema ==
  LET kept == SelectSeq(Following.columns, LAMBDA col : col # FollowingKey)
  IN  Leading.columns \o
        [i \in 1..Len(kept) |->
           IF InSeq(Leading.columns, kept[i])
           THEN Following.name \o <<".">> \o kept[i]
           ELSE kept[i]]

\* C27: the schema of the result of a join of any kind is the left schema
\* followed by the right schema without the resolved right join column, a
\* right-origin name that is also a left name being written
\* {right_table}.{name} (for the right join, which swaps its operands, left
\* and right are the swapped tables); and every row of the result, matched
\* or Null-padded, has one value per column of that schema
C27_JoinSchema ==
  (JoinCalled /\ outcome.status = "ok") =>
    /\ result.columns = JoinSchema
    /\ RowsFit(result)

\* C28: right_join(L, R, col) returns what left_join(R, L, rcol, col)
\* returns, rcol being the right join column resolved for (L, R, col): the
\* schema is R's columns and then L's columns without col, every row of R
\* begins a row of the result, and a row of R whose key no row of L holds
\* is followed by Null in every column of L's origin
C28_RightJoin ==
  (JoinCalled /\ last.join_type = "right" /\ outcome.status = "ok") =>
    LET left_key == IndexOf(Left.columns, JoinColumn)
        right_key == IndexOf(Right.columns, Resolved)
        left_kept == WithoutIndex(Left.columns, left_key)
        unmatched(right_row) ==
          \A i \in 1..Len(Left.rows) : Left.rows[i][left_key] # right_row[right_key]
    IN  /\ result = left_join(Right, Left, Resolved, JoinColumn).table
        /\ Len(result.columns) = Len(Right.columns) + Len(left_kept)
        /\ SubSeq(result.columns, 1, Len(Right.columns)) = Right.columns
        /\ \A i \in 1..Len(left_kept) :
             result.columns[Len(Right.columns) + i]
               \in {left_kept[i], Left.name \o <<".">> \o left_kept[i]}
        /\ \A j \in 1..Len(Right.rows) :
             \E k \in 1..Len(result.rows) :
               /\ SubSeq(result.rows[k], 1, Len(Right.columns)) = Right.rows[j]
               /\ unmatched(Right.rows[j]) =>
                    result.rows[k] = Right.rows[j] \o Nulls(Len(left_kept))

\* a right join of two different tables has just returned two rows for its
\* two right rows: the first joined to a left row, the second, whose key no
\* left row holds, ending in Null
C28_Witness ==
  /\ JoinCalled /\ last.join_type = "right" /\ outcome.status = "ok"
  /\ last.name # last.other
  /\ Len(Left.columns) = 2
  /\ Len(Right.rows) = 2
  /\ Len(Left.rows) > 0
  /\ Len(result.rows) = 2
  /\ result.rows[1][Len(result.columns)] # Null
  /\ result.rows[2] = Right.rows[2] \o <<Null>>

\* no name occurs twice in a schema
Distinct(columns) ==
  \A i \in 1..Len(columns), j \in 1..Len(columns) :
    i # j => columns[i] # columns[j]

\* C29: the column names of every registered table, and of every table a
\* call returns, are pairwise distinct
C29_DistinctColumns ==
  /\ \A n \in DOMAIN tables : Distinct(tables[n].columns)
  /\ outcome.returns = "table" => Distinct(result.columns)

\* the names are in ascending order, none twice
Ascending(names) ==
  \A i \in 1..(Len(names) - 1) : StrLess(names[i], names[i + 1])

\* C30: the registered names are those of the tables created and not
\* dropped since, none at the start; a call other than drop_table(n),
\* whether it succeeds or fails, leaves n registered with the schema it had;
\* drop_table(n) removes n alone and returns True, or returns False and
\* changes nothing when n is not registered; and list_tables returns the
\* registered names, each once, in ascending order
C30_Registry ==
  /\ DOMAIN tables = DOMAIN issued
  /\ \A n \in DOMAIN pre :
       \/ last.op = "drop_table" /\ last.name = n
       \/ n \in DOMAIN tables /\ tables[n].columns = pre[n].columns
  /\ DOMAIN tables # DOMAIN pre =>
       \/ last.op = "drop_table"
       \/ /\ Queried("CREATE") /\ outcome.status = "ok"
          /\ DOMAIN tables = DOMAIN pre \cup {last.stmt.table}
  /\ last.op = "drop_table" =>
       IF last.name \in DOMAIN pre
       THEN /\ outcome.returns = "True"
            /\ tables = [n \in DOMAIN pre \ {last.name} |-> pre[n]]
       ELSE /\ outcome.returns = "False"
            /\ tables = pre
  /\ last.op = "list_tables" =>
       /\ Ascending(listed)
       /\ {listed[i] : i \in 1..Len(listed)} = DOMAIN tables
       /\ tables = pre

\* drop_table has just removed one of two registered tables and returned
\* True, the other keeping its rows
C30_Witness ==
  /\ last.op = "drop_table"
  /\ outcome.returns = "True"
  /\ Cardinality(DOMAIN pre) = 2
  /\ DOMAIN tables = DOMAIN pre \ {last.name}
  /\ \E n \in DOMAIN tables : Len(tables[n].rows) > 0

\* list_tables has just returned the names of the two registered tables
C30_ListWitness ==
  /\ last.op = "list_tables"
  /\ listed = <<<<"t">>, <<"u">>>>

\* a CREATE TABLE of a registered name has just failed, the table keeping
\* its schema and its rows
C30_FailureWitness ==
  /\ Queried("CREATE")
  /\ outcome.status = "error"
  /\ last.stmt.table \in DOMAIN tables
  /\ Len(tables[last.stmt.table].rows) > 0
  /\ tables = pre

====
